---- MODULE Spec2Model ----
(***************************************************************************)
(* Action Jackson 1.8.4 (action_jackson_1_8_4.py): the bone-map table, the *)
(* two-phase bone rename, the reference patchers, the mapping file, live   *)
(* follow constraints and the export commands, as a state machine.         *)
(*                                                                         *)
(* Strings are sequences of atoms (an atom is a character or an opaque run *)
(* of characters), so that concatenation, trimming, splitting and token    *)
(* replacement are computed, not assumed.  The host (bpy) is modelled by   *)
(* the contract the add-on's calls rely on: a collection keyed by name     *)
(* keeps its names unique (an assigned name that is taken gets a numeric   *)
(* suffix), and assigning a field changes that field only.                 *)
(***************************************************************************)
EXTENDS Integers, Sequences, FiniteSets, TLC

VARIABLES props, host, disk, pc, pre, last, args

vars == <<props, host, disk, pc, pre, last, args>>

----------------------------------------------------------------------------
(* Bounds of the model *)

\* longest RenameMapping drawn as an input of the rename function
MaxMap == 3
\* highest numeric suffix the host's unique-naming is followed to
MaxDup == 4
\* longest key or value of the mapping that is written as text and parsed back
MaxStrLen == 2
\* most further entries written after that one
MaxExtra == 1

----------------------------------------------------------------------------
(* Strings *)

Str(a) == <<a>>
Empty == <<>>

nA == Str("A")
nB == Str("B")
nC == Str("C")
nD == Str("D")

\* Python truthiness of a str
Truthy(s) == s # Empty

RECURSIVE SeqToSet(_)
SeqToSet(s) == IF s = <<>> THEN {} ELSE {Head(s)} \cup SeqToSet(Tail(s))

Last(s) == s[Len(s)]
Front(s) == SubSeq(s, 1, Len(s) - 1)

----------------------------------------------------------------------------
(* Python dict: insertion-ordered pairs <<key, value>> with distinct keys *)

RECURSIVE DictKeysSeq(_)
DictKeysSeq(d) == IF d = <<>> THEN <<>> ELSE <<Head(d)[1]>> \o DictKeysSeq(Tail(d))

DictKeys(d) == {d[i][1] : i \in 1..Len(d)}

DictHas(d, k) == \E i \in 1..Len(d) : d[i][1] = k

DictGet(d, k) == d[CHOOSE i \in 1..Len(d) : d[i][1] = k][2]

\* d[k] = v: an existing key keeps its place, a new key goes last
DictPut(d, k, v) ==
    IF DictHas(d, k)
    THEN [i \in 1..Len(d) |-> IF d[i][1] = k THEN <<k, v>> ELSE d[i]]
    ELSE Append(d, <<k, v>>)

\* Python's == on dicts: the same keys with the same values, in any order
DictEq(d, e) == {d[i] : i \in 1..Len(d)} = {e[i] : i \in 1..Len(e)}

IsDict(d) == \A i, j \in 1..Len(d) : d[i][1] = d[j][1] => i = j

----------------------------------------------------------------------------
(* Host: unique names within a collection *)

DupAtom(k) == CASE k = 1 -> ".001" [] k = 2 -> ".002" [] k = 3 -> ".003"
                [] k = 4 -> ".004" [] OTHER -> ".005"

DupAtoms == {DupAtom(k) : k \in 1..(MaxDup + 1)}

DupNum(a) == CHOOSE k \in 1..(MaxDup + 1) : DupAtom(k) = a

\* name -> <<stem, number>>, the number 0 when the name has no numeric suffix
SplitNameNum(n) ==
    IF n # Empty /\ Last(n) \in DupAtoms
    THEN <<Front(n), DupNum(Last(n))>>
    ELSE <<n, 0>>

\* the name the host stores when `n` is assigned and `used` are the other names
UniqueName(n, used) ==
    IF n \notin used THEN n
    ELSE LET sp == SplitNameNum(n)
             free == {k \in (sp[2] + 1)..(MaxDup + 1) : (sp[1] \o <<DupAtom(k)>>) \notin used}
         IN  IF free = {} THEN sp[1] \o <<DupAtom(MaxDup + 1)>>
             ELSE sp[1] \o <<DupAtom(CHOOSE k \in free : \A j \in free : k <= j)>>

----------------------------------------------------------------------------
(* Armature bones: a sequence of bones, the index being the bone's identity *)

BoneNames(bs) == {bs[i].name : i \in 1..Len(bs)}

BoneIdx(bs, n) == CHOOSE i \in 1..Len(bs) : bs[i].name = n

\* eb[old].name = n  /  bone.name = n
SetBoneName(bs, i, n) ==
    [bs EXCEPT ![i].name = UniqueName(n, {bs[j].name : j \in (1..Len(bs)) \ {i}})]

temp_suffix == <<"_TMP_RENAME__">>

\* pairs that keep the entries whose new name is the old one
RECURSIVE RenamePairsWithSame(_, _)
RenamePairsWithSame(bs, mapping) ==
    IF mapping = <<>> THEN <<>>
    ELSE LET o == Head(mapping)[1]
             n == Head(mapping)[2]
             rest == RenamePairsWithSame(bs, Tail(mapping))
         IN  IF o \in BoneNames(bs) /\ Truthy(n)
             THEN <<Head(mapping)>> \o rest ELSE rest

\* pairs = [(o, n) for o, n in mapping.items() if o in eb.keys() and n and o != n]
RECURSIVE RenamePairs(_, _)
RenamePairs(bs, mapping) ==
    IF mapping = <<>> THEN <<>>
    ELSE LET o == Head(mapping)[1]
             n == Head(mapping)[2]
             rest == RenamePairs(bs, Tail(mapping))
         IN  IF o \in BoneNames(bs) /\ Truthy(n) /\ o # n
             THEN <<Head(mapping)>> \o rest ELSE rest

\* for old, new in pairs: eb[old].name = new + temp_suffix
RECURSIVE RenamePhase1(_, _)
RenamePhase1(bs, pairs) ==
    IF pairs = <<>> THEN bs
    ELSE LET old == Head(pairs)[1]
             new == Head(pairs)[2]
         IN  RenamePhase1(SetBoneName(bs, BoneIdx(bs, old), new \o temp_suffix), Tail(pairs))

\* for old, new in pairs: tmp = new + temp_suffix; if tmp in eb: eb[tmp].name = new
RECURSIVE RenamePhase2(_, _)
RenamePhase2(r, pairs) ==
    IF pairs = <<>> THEN r
    ELSE LET new == Head(pairs)[2]
             tmp == new \o temp_suffix
         IN  IF tmp \in BoneNames(r.bones)
             THEN RenamePhase2([bones |-> SetBoneName(r.bones, BoneIdx(r.bones, tmp), new),
                                applied |-> r.applied + 1], Tail(pairs))
             ELSE RenamePhase2(r, Tail(pairs))

\* a rename that assigns the final name directly, entry by entry
RECURSIVE RenameSinglePhase(_, _)
RenameSinglePhase(r, pairs) ==
    IF pairs = <<>> THEN r
    ELSE LET old == Head(pairs)[1]
             new == Head(pairs)[2]
         IN  IF old \in BoneNames(r.bones)
             THEN RenameSinglePhase([bones |-> SetBoneName(r.bones, BoneIdx(r.bones, old), new),
                                     applied |-> r.applied + 1], Tail(pairs))
             ELSE RenameSinglePhase(r, Tail(pairs))

RenameLoopsDirect(bs, pairs) ==
    RenameSinglePhase([bones |-> bs, applied |-> 0], pairs)

\* the two rename loops of rename_bones_edit_mode_preserve_flags
RenameLoops(bs, pairs) ==
    RenamePhase2([bones |-> RenamePhase1(bs, pairs), applied |-> 0], pairs)

\* for old, new in pairs: if new in bones and old in deform_flags:
\*     bones[new].use_deform = deform_flags[old]
RECURSIVE RestoreDeform(_, _, _)
RestoreDeform(r, deform_flags, pairs) ==
    IF pairs = <<>> THEN r
    ELSE LET old == Head(pairs)[1]
             new == Head(pairs)[2]
         IN  IF new \in BoneNames(r.bones) /\ DictHas(deform_flags, old)
             THEN RestoreDeform(
                    [r EXCEPT !.bones[BoneIdx(r.bones, new)].use_deform = DictGet(deform_flags, old),
                              !.restored = r.restored + 1],
                    deform_flags, Tail(pairs))
             ELSE RestoreDeform(r, deform_flags, Tail(pairs))

\* deform_flags = {b.name: b.use_deform for b in arm_obj.data.bones}
DeformFlags(bs) == [i \in 1..Len(bs) |-> <<bs[i].name, bs[i].use_deform>>]

----------------------------------------------------------------------------
(* The mapping file: parse_mapping_txt and mapping_to_txt *)

NL == "\n"
SP == " "
EQ == "="
HASH == "#"

\* what str.strip() removes; a line break is whitespace too
Whitespace == {SP, NL}

RECURSIVE LStrip(_)
LStrip(s) == IF s # <<>> /\ Head(s) \in Whitespace THEN LStrip(Tail(s)) ELSE s

RECURSIVE RStrip(_)
RStrip(s) == IF s # <<>> /\ Last(s) \in Whitespace THEN RStrip(Front(s)) ELSE s

\* str.strip()
Strip(s) == RStrip(LStrip(s))

\* index of the first atom `a` of s, 0 when there is none
FirstIndex(s, a) ==
    IF \E i \in 1..Len(s) : s[i] = a
    THEN CHOOSE i \in 1..Len(s) : s[i] = a /\ \A j \in 1..(i - 1) : s[j] # a
    ELSE 0

LastIndex(s, a) ==
    IF \E i \in 1..Len(s) : s[i] = a
    THEN CHOOSE i \in 1..Len(s) : s[i] = a /\ \A j \in (i + 1)..Len(s) : s[j] # a
    ELSE 0

\* text.splitlines()
RECURSIVE SplitLines(_)
SplitLines(t) ==
    IF t = <<>> THEN <<>>
    ELSE LET i == FirstIndex(t, NL)
         IN  IF i = 0 THEN <<t>>
             ELSE <<SubSeq(t, 1, i - 1)>> \o SplitLines(SubSeq(t, i + 1, Len(t)))

\* a split at the last "=" of the line
SplitEqLast(line) ==
    LET i == LastIndex(line, EQ)
    IN  <<SubSeq(line, 1, i - 1), SubSeq(line, i + 1, Len(line))>>

\* line.split("=", 1), for a line that holds an "="
SplitEq(line) ==
    LET i == FirstIndex(line, EQ)
    IN  <<SubSeq(line, 1, i - 1), SubSeq(line, i + 1, Len(line))>>

\* the body of parse_mapping_txt's loop over text.splitlines()
RECURSIVE ParseLines(_, _)
ParseLines(lines, mapping) ==
    IF lines = <<>> THEN mapping
    ELSE LET line == Strip(Head(lines))
         IN  IF line = <<>> \/ Head(line) = HASH
             THEN ParseLines(Tail(lines), mapping)
             ELSE IF FirstIndex(line, EQ) # 0
                  THEN LET old == Strip(SplitEq(line)[1])
                           new == Strip(SplitEq(line)[2])
                       IN  IF Truthy(old)
                           THEN ParseLines(Tail(lines), DictPut(mapping, old, new))
                           ELSE ParseLines(Tail(lines), mapping)
                  ELSE ParseLines(Tail(lines), mapping)

\* parse_mapping_txt(text)
parse_mapping_txt(text) == ParseLines(SplitLines(text), <<>>)

\* "\n".join(lines)
RECURSIVE JoinLines(_)
JoinLines(lines) ==
    IF lines = <<>> THEN <<>>
    ELSE IF Len(lines) = 1 THEN Head(lines)
    ELSE Head(lines) \o <<NL>> \o JoinLines(Tail(lines))

HeaderLines == << <<HASH, SP, "bone_old", EQ, "bone_new">>,
                  <<HASH, SP, "lines starting with # are comments">> >>

\* mapping_to_txt(mapping)
mapping_to_txt(mapping) ==
    JoinLines(HeaderLines \o [i \in 1..Len(mapping) |-> mapping[i][1] \o <<EQ>> \o mapping[i][2]])

----------------------------------------------------------------------------
(* Host objects *)

None == "None"
ArmA == "ArmA"
ArmB == "ArmB"
Mesh1 == "Mesh1"
Mesh2 == "Mesh2"

\* bpy.data.objects, in iteration order
Objects == <<ArmA, ArmB, Mesh1, Mesh2>>
Armatures == {ArmA, ArmB}
Meshes == {Mesh1, Mesh2}

ObjType(o) == IF o \in Armatures THEN "ARMATURE" ELSE IF o \in Meshes THEN "MESH" ELSE "NONE"

\* arm and arm.type == 'ARMATURE'
IsArmature(o) == o # None /\ ObjType(o) = "ARMATURE"

\* _bone_exists(arm_obj, name)
_bone_exists(h, arm_obj, name) ==
    IsArmature(arm_obj) /\ Truthy(name) /\ name \in BoneNames(h.bones[arm_obj])

\* _ensure_active(obj)
_ensure_active(h, obj) == [h EXCEPT !.active_object = obj]

\* _ensure_mode(obj, mode): mode_set acts on the active object
_ensure_mode(h, obj, m) ==
    IF obj = None \/ h.mode[obj] = m THEN h
    ELSE IF h.active_object \in Armatures THEN [h EXCEPT !.mode[h.active_object] = m] ELSE h

\* rename_bones_edit_mode_preserve_flags(arm_obj, mapping) -> [h, applied, restored]
rename_bones_edit_mode_preserve_flags(h, arm_obj, mapping) ==
    IF ~IsArmature(arm_obj) \/ mapping = <<>>
    THEN [h |-> h, applied |-> 0, restored |-> 0]
    ELSE LET deform_flags == DeformFlags(h.bones[arm_obj])
             h1 == _ensure_mode(_ensure_active(h, arm_obj), arm_obj, "EDIT")
             pairs == RenamePairs(h1.bones[arm_obj], mapping)
             r2 == RenameLoops(h1.bones[arm_obj], pairs)
             h2 == _ensure_mode([h1 EXCEPT !.bones[arm_obj] = r2.bones], arm_obj, "OBJECT")
             r3 == RestoreDeform([bones |-> h2.bones[arm_obj], restored |-> 0], deform_flags, pairs)
         IN  [h |-> [h2 EXCEPT !.bones[arm_obj] = r3.bones],
              applied |-> r2.applied, restored |-> r3.restored]

----------------------------------------------------------------------------
(* Reference patchers.  A data path is a sequence of tokens [kind, name]:  *)
(* kind "pose.bones" is the text pose.bones["name"], any other kind is     *)
(* text the bone token does not occur in.                                  *)

PoseTok(n) == [kind |-> "pose.bones", name |-> n]
PropTok(a) == [kind |-> "prop", name |-> Str(a)]

\* _replace_bone_in_datapath(dp, old, new): <<found, the path after dp.replace>>;
\* found = FALSE is the None result
_replace_bone_in_datapath(dp, old, new) ==
    IF dp # <<>> /\ \E i \in 1..Len(dp) : dp[i] = PoseTok(old)
    THEN <<TRUE, [i \in 1..Len(dp) |-> IF dp[i] = PoseTok(old) THEN PoseTok(new) ELSE dp[i]]>>
    ELSE <<FALSE, dp>>

\* for old, new in mapping.items(): res = _replace...(new_dp, old, new);
\*     if res and res != new_dp: new_dp = res
RECURSIVE PatchPath(_, _)
PatchPath(new_dp, mapping) ==
    IF mapping = <<>> THEN new_dp
    ELSE LET res == _replace_bone_in_datapath(new_dp, Head(mapping)[1], Head(mapping)[2])
         IN  IF res[1] /\ res[2] # <<>> /\ res[2] # new_dp
             THEN PatchPath(res[2], Tail(mapping))
             ELSE PatchPath(new_dp, Tail(mapping))

\* a patcher that rewrites only the first path of the list
PatchPathsFirstOnly(paths, mapping) ==
    [i \in 1..Len(paths) |-> IF i = 1 THEN PatchPath(paths[i], mapping) ELSE paths[i]]

PatchPaths(paths, mapping) == [i \in 1..Len(paths) |-> PatchPath(paths[i], mapping)]

\* iter_meshes_using_armature(arm_obj): the meshes with an armature modifier on it
MeshesUsing(h, arm_obj) == {m \in Meshes : h.meshes[m].modifier_object = arm_obj}

\* for vg in obj.vertex_groups: new = mapping.get(vg.name);
\*     if new and new != vg.name: vg.name = new
RECURSIVE PatchVGs(_, _, _)
PatchVGs(vgs, i, mapping) ==
    IF i > Len(vgs) THEN vgs
    ELSE IF DictHas(mapping, vgs[i]) /\ Truthy(DictGet(mapping, vgs[i]))
            /\ DictGet(mapping, vgs[i]) # vgs[i]
         THEN PatchVGs([vgs EXCEPT ![i] = UniqueName(DictGet(mapping, vgs[i]),
                                                     {vgs[j] : j \in (1..Len(vgs)) \ {i}})],
                       i + 1, mapping)
         ELSE PatchVGs(vgs, i + 1, mapping)

\* patch_vertex_groups_for_armature(arm_obj, mapping)
patch_vertex_groups_for_armature(h, arm_obj, mapping) ==
    [h EXCEPT !.meshes = [m \in Meshes |->
        IF m \in MeshesUsing(h, arm_obj)
        THEN [h.meshes[m] EXCEPT !.vertex_groups = PatchVGs(@, 1, mapping)]
        ELSE h.meshes[m]]]

PatchCons(cons, mapping) ==
    [k \in 1..Len(cons) |->
        IF DictHas(mapping, cons[k].subtarget)
        THEN [cons[k] EXCEPT !.subtarget = DictGet(mapping, cons[k].subtarget)]
        ELSE cons[k]]

\* patch_constraints_subtargets(arm_obj, mapping)
patch_constraints_subtargets(h, arm_obj, mapping) ==
    [h EXCEPT !.bones[arm_obj] =
        [i \in 1..Len(h.bones[arm_obj]) |->
            [h.bones[arm_obj][i] EXCEPT !.constraints = PatchCons(@, mapping)]]]

\* patch_fcurves_actions(mapping): every action of bpy.data.actions
patch_fcurves_actions(h, mapping) ==
    [h EXCEPT !.actions = [a \in 1..Len(h.actions) |->
        [h.actions[a] EXCEPT !.fcurves = PatchPaths(@, mapping)]]]

\* handle_animdata(ad): the drivers, then the fcurves of the assigned action
handle_animdata(h, owner, mapping) ==
    LET ad == h.animation_data[owner]
        h1 == [h EXCEPT !.animation_data[owner].drivers = PatchPaths(@, mapping)]
    IN  IF ad.action # 0
        THEN [h1 EXCEPT !.actions[ad.action].fcurves = PatchPaths(@, mapping)]
        ELSE h1

RECURSIVE PatchOwners(_, _, _)
PatchOwners(h, owners, mapping) ==
    IF owners = <<>> THEN h
    ELSE PatchOwners(handle_animdata(h, Head(owners), mapping), Tail(owners), mapping)

\* patch_driver_fcurves(mapping): every object that can own animation data
patch_driver_fcurves(h, mapping) == PatchOwners(h, Objects, mapping)

\* force_refresh_depsgraph(arm_obj): drops and restores each modifier target,
\* steps the frame forward and back
force_refresh_depsgraph(h, arm_obj) ==
    LET users == MeshesUsing(h, arm_obj)
        dropped == [h EXCEPT !.meshes = [m \in Meshes |->
                      IF m \in users THEN [h.meshes[m] EXCEPT !.modifier_object = None]
                      ELSE h.meshes[m]]]
        back == [dropped EXCEPT !.meshes = [m \in Meshes |->
                      IF m \in users THEN [dropped.meshes[m] EXCEPT !.modifier_object = arm_obj]
                      ELSE dropped.meshes[m]]]
        cur == back.frame_current
        stepped == [back EXCEPT !.frame_current = cur + 1]
    IN  [stepped EXCEPT !.frame_current = cur]

\* rename, then the four patchers, then the refresh: the body shared by
\* _apply_mapping_on_arm, the reverts and the temporary export rename
RenameAndPatch(h, arm, mapping) ==
    LET h1 == rename_bones_edit_mode_preserve_flags(h, arm, mapping).h
        h2 == patch_vertex_groups_for_armature(h1, arm, mapping)
        h3 == patch_constraints_subtargets(h2, arm, mapping)
        h4 == patch_fcurves_actions(h3, mapping)
        h5 == patch_driver_fcurves(h4, mapping)
    IN  force_refresh_depsgraph(h5, arm)

\* _apply_mapping_on_arm(arm, mapping)
_apply_mapping_on_arm(h, arm, mapping) ==
    IF ~IsArmature(arm) THEN h ELSE RenameAndPatch(h, arm, mapping)

----------------------------------------------------------------------------
(* The bone-map table and its operators.  An operator maps the add-on's    *)
(* properties p and the host scene h to [p, h, result].                    *)

Rows(p) == 1..Len(p.bone_map)

\* arm = p.target_armature if p.current_armature_side == 'TARGET' else p.source_armature
CurrentArm(p) ==
    IF p.current_armature_side = "TARGET" THEN p.target_armature ELSE p.source_armature

\* _assign_group_to(arm, bone_name, grp)
_assign_group_to(h, arm, bone_name, grp) ==
    [h EXCEPT !.bones[arm][BoneIdx(h.bones[arm], bone_name)].bone_group = grp]

RECURSIVE MarkGreenRows(_, _, _)
MarkGreenRows(h, p, i) ==
    IF i > Len(p.bone_map) THEN h
    ELSE LET it == p.bone_map[i]
             A == p.source_armature
             B == p.target_armature
             hA == IF Truthy(it.original_name) /\ Truthy(it.target_name)
                      /\ _bone_exists(h, A, it.original_name)
                   THEN _assign_group_to(h, A, it.original_name, "Mapped (Green)") ELSE h
             hB == IF Truthy(it.original_name) /\ Truthy(it.target_name)
                      /\ _bone_exists(hA, B, it.target_name)
                   THEN _assign_group_to(hA, B, it.target_name, "Mapped (Green)") ELSE hA
         IN  MarkGreenRows(hB, p, i + 1)

\* _mark_mapped_green(props)
_mark_mapped_green(p, h) == MarkGreenRows(h, p, 1)

\* {it.original_name: it.target_name for it in bone_map if it.original_name and it.target_name}
RECURSIVE MappingRaw(_, _, _)
MappingRaw(rows, i, mapping) ==
    IF i > Len(rows) THEN mapping
    ELSE IF Truthy(rows[i].original_name) /\ Truthy(rows[i].target_name)
         THEN MappingRaw(rows, i + 1, DictPut(mapping, rows[i].original_name, rows[i].target_name))
         ELSE MappingRaw(rows, i + 1, mapping)

\* {old: new for old, new in mapping_raw.items() if old != new and _bone_exists(arm, old)}
RECURSIVE MappingApplicable(_, _, _)
MappingApplicable(h, arm, raw) ==
    IF raw = <<>> THEN <<>>
    ELSE LET rest == MappingApplicable(h, arm, Tail(raw))
         IN  IF Head(raw)[1] # Head(raw)[2] /\ _bone_exists(h, arm, Head(raw)[1])
             THEN <<Head(raw)>> \o rest ELSE rest

\* the RenameMapping an Apply to `arm` builds from the table
ApplyMapping(p, h, arm) == MappingApplicable(h, arm, MappingRaw(p.bone_map, 1, <<>>))

\* an Apply that copies each affected row's own Rename cell into its Current cell
SetCurrentFromOwnTarget(p, mapping) ==
    [p EXCEPT !.bone_map = [i \in Rows(p) |->
        IF DictHas(mapping, p.bone_map[i].original_name)
        THEN [p.bone_map[i] EXCEPT !.current_name = p.bone_map[i].target_name]
        ELSE p.bone_map[i]]]

\* for it in p.bone_map: if it.original_name in mapping: it.current_name = mapping[...]
SetCurrentFromMapping(p, mapping) ==
    [p EXCEPT !.bone_map = [i \in Rows(p) |->
        IF DictHas(mapping, p.bone_map[i].original_name)
        THEN [p.bone_map[i] EXCEPT !.current_name = DictGet(mapping, p.bone_map[i].original_name)]
        ELSE p.bone_map[i]]]

\* the body shared by AJ_OT_apply_to_source.execute and AJ_OT_apply_to_target.execute
ApplyTo(p, h, arm, side) ==
    IF ~IsArmature(arm) THEN [p |-> p, h |-> h, result |-> "CANCELLED"]
    ELSE LET mapping == ApplyMapping(p, h, arm)
         IN  IF mapping = <<>> THEN [p |-> p, h |-> h, result |-> "CANCELLED"]
             ELSE LET h1 == _apply_mapping_on_arm(h, arm, mapping)
                      p1 == IF p.current_armature_side = side
                            THEN SetCurrentFromMapping(p, mapping) ELSE p
                  IN  [p |-> p1, h |-> _mark_mapped_green(p1, h1), result |-> "FINISHED"]

\* AJ_OT_apply_to_source.execute
apply_to_source(p, h) == ApplyTo(p, h, p.source_armature, "SOURCE")

\* AJ_OT_apply_to_target.execute
apply_to_target(p, h) == ApplyTo(p, h, p.target_armature, "TARGET")

\* AJ_OT_revert_row.execute; idx counts rows from 0
revert_row(p, h, idx) ==
    IF idx < 0 \/ idx >= Len(p.bone_map) THEN [p |-> p, h |-> h, result |-> "CANCELLED"]
    ELSE LET it == p.bone_map[idx + 1]
             arm == CurrentArm(p)
             cur == it.current_name
             ori == it.original_name
             p1 == [p EXCEPT !.bone_map[idx + 1].current_name = ori]
         IN  IF IsArmature(arm) /\ Truthy(cur) /\ Truthy(ori) /\ cur # ori
                /\ _bone_exists(h, arm, cur)
             THEN [p |-> p1, h |-> RenameAndPatch(h, arm, << <<cur, ori>> >>),
                   result |-> "FINISHED"]
             ELSE [p |-> p1, h |-> h, result |-> "FINISHED"]

\* the mapping AJ_OT_revert_marked.execute collects: mapping[cur] = ori
RECURSIVE RevertMapping(_, _, _, _)
RevertMapping(p, h, i, mapping) ==
    IF i > Len(p.bone_map) THEN mapping
    ELSE LET it == p.bone_map[i]
             arm == CurrentArm(p)
         IN  IF it.mark /\ IsArmature(arm) /\ Truthy(it.current_name)
                /\ Truthy(it.original_name) /\ it.current_name # it.original_name
                /\ _bone_exists(h, arm, it.current_name)
             THEN RevertMapping(p, h, i + 1, DictPut(mapping, it.current_name, it.original_name))
             ELSE RevertMapping(p, h, i + 1, mapping)

\* AJ_OT_revert_marked.execute
revert_marked(p, h) ==
    LET arm == CurrentArm(p)
        mapping == RevertMapping(p, h, 1, <<>>)
        h1 == IF arm # None /\ mapping # <<>> THEN RenameAndPatch(h, arm, mapping) ELSE h
        p1 == [p EXCEPT !.bone_map = [i \in Rows(p) |->
                 IF p.bone_map[i].mark /\ p.bone_map[i].current_name # p.bone_map[i].original_name
                 THEN [p.bone_map[i] EXCEPT !.current_name = p.bone_map[i].original_name]
                 ELSE p.bone_map[i]]]
    IN  [p |-> p1, h |-> h1, result |-> "FINISHED"]

----------------------------------------------------------------------------
(* The state after registration, and a scene to work on *)

\* BoneMapItem
Row(o, c, t) == [original_name |-> o, current_name |-> c, target_name |-> t,
                 cap_src |-> Empty, cap_tgt |-> Empty, mark |-> FALSE]

\* AJ_Props, with the defaults of its property declarations
PropsDefault ==
    [bone_map |-> <<>>, active_index |-> 0, mapping_path |-> Empty,
     source_armature |-> None, target_armature |-> None,
     current_armature_side |-> "TARGET", export_side |-> "TARGET",
     export_format |-> "FBX", include_mesh |-> TRUE, rename_on_export |-> TRUE,
     rot_z |-> 0, follow_list_selection |-> TRUE, follow_mode |-> "ROT",
     live_follow_a2b |-> FALSE, live_follow_b2a |-> FALSE]

Bone(n, d) == [name |-> n, use_deform |-> d, select |-> FALSE, bone_group |-> "",
               parent |-> 0, constraints |-> <<>>]

\* a scene with two armatures of bones A, B, C (A the root of B and C) and no
\* references to them
HostBase ==
    [bones |-> [a \in Armatures |->
                  <<Bone(nA, TRUE), [Bone(nB, FALSE) EXCEPT !.parent = 1],
                    [Bone(nC, TRUE) EXCEPT !.parent = 1]>>],
     bones_active |-> [a \in Armatures |-> 0],
     mode |-> [a \in Armatures |-> "OBJECT"],
     active_object |-> None,
     selected_objects |-> {},
     meshes |-> [m \in Meshes |-> [modifier_object |-> None, vertex_groups |-> <<>>]],
     actions |-> <<>>,
     animation_data |-> [o \in SeqToSet(Objects) |-> [action |-> 0, drivers |-> <<>>]],
     matrix_world |-> [o \in SeqToSet(Objects) |-> 0],
     frame_start |-> 1, frame_end |-> 250, frame_current |-> 1,
     helpers |-> 0]

\* the files a mapping can be saved to and loaded from
PathMap == <<"map">>
PathMapTxt == <<"map", ".txt">>
Paths == {PathMap, PathMapTxt}
NoFile == [exists |-> FALSE, text |-> <<>>]
DiskEmpty == [f \in Paths |-> NoFile]

NoCall == [op |-> "none", result |-> "NONE", out |-> <<>>]
NoArgs == [mapping |-> <<>>, pending |-> {}]

----------------------------------------------------------------------------
(* SpecRename: rename_bones_edit_mode_preserve_flags on any bounded mapping *)

RenameKeys == {nA, nB, nC, nD}
RenameVals == {nA, nB, nC, nD, Empty}

MappingInputs ==
    {m \in UNION {[1..k -> RenameKeys \X RenameVals] : k \in 0..MaxMap} : IsDict(m)}

InitRename ==
    /\ props = [PropsDefault EXCEPT !.target_armature = ArmB]
    /\ \E d \in [1..3 -> BOOLEAN] :
          host = [HostBase EXCEPT !.bones[ArmB] =
                    <<Bone(nA, d[1]), Bone(nB, d[2]), Bone(nC, d[3])>>]
    /\ disk = DiskEmpty
    /\ pc = "ready"
    /\ pre = [props |-> props, host |-> host]
    /\ last = NoCall
    /\ args \in {[mapping |-> m, pending |-> {}] : m \in MappingInputs}

CallRename ==
    /\ pc = "ready"
    /\ LET r == rename_bones_edit_mode_preserve_flags(host, ArmB, args.mapping)
       IN  /\ host' = r.h
           /\ last' = [op |-> "rename", result |-> "RETURNED", out |-> <<r.applied, r.restored>>]
    /\ pc' = "done"
    /\ pre' = [props |-> props, host |-> host]
    /\ UNCHANGED <<props, disk, args>>

SpecRename == InitRename /\ [][CallRename]_vars

\* keys are bones of the armature and the values are a permutation of the keys
IsPermutationOfBones(m, bs) ==
    /\ m # <<>>
    /\ DictKeys(m) \subseteq BoneNames(bs)
    /\ {m[i][2] : i \in 1..Len(m)} = DictKeys(m)

(* C1: after the two-phase rename with a mapping that permutes existing    *)
(* bone names, every bone formerly named old is named mapping[old], the    *)
(* set of names and the number of bones are unchanged, and every bone      *)
(* keeps its own deform flag (so deform[mapping[old]] = old deform[old]).  *)
C1_CollisionSafety ==
    (pc = "done" /\ IsPermutationOfBones(args.mapping, pre.host.bones[ArmB])) =>
        LET b0 == pre.host.bones[ArmB]
            b1 == host.bones[ArmB]
            m == args.mapping
        IN  /\ Len(b1) = Len(b0)
            /\ BoneNames(b1) = BoneNames(b0)
            /\ Cardinality(BoneNames(b1)) = Len(b1)
            /\ \A i \in 1..Len(b0) :
                  /\ DictHas(m, b0[i].name) => b1[i].name = DictGet(m, b0[i].name)
                  /\ b1[i].use_deform = b0[i].use_deform
            /\ \A k \in 1..Len(m) :
                  b1[BoneIdx(b1, m[k][2])].use_deform = b0[BoneIdx(b0, m[k][1])].use_deform

\* a swap of two bones with different deform flags has been renamed
C1_Witness ==
    /\ pc = "done"
    /\ args.mapping = <<(<<nA, nB>>), (<<nB, nA>>)>>
    /\ pre.host.bones[ArmB][1].use_deform # pre.host.bones[ArmB][2].use_deform
    /\ host.bones[ArmB][1].name = nB
    /\ last.out = <<2, 2>>

\* the keys of m are bones and every new name is a name
KeysExist(m, bs) ==
    /\ m # <<>>
    /\ DictKeys(m) \subseteq BoneNames(bs)
    /\ \A k \in 1..Len(m) : Truthy(m[k][2])

(* C17: after the rename with a mapping whose keys are existing bones, for *)
(* every entry (old, new) the bone named new has the deform flag the bone   *)
(* named old had before, and every bone whose name is not a key has the    *)
(* name and the deform flag it had before.                                 *)
C17_DeformFlagsAndUntouchedBones ==
    (pc = "done" /\ KeysExist(args.mapping, pre.host.bones[ArmB])) =>
        LET b0 == pre.host.bones[ArmB]
            b1 == host.bones[ArmB]
            m == args.mapping
        IN  /\ \A k \in 1..Len(m) :
                  \E i \in 1..Len(b1) :
                      /\ b1[i].name = m[k][2]
                      /\ b1[i].use_deform = b0[BoneIdx(b0, m[k][1])].use_deform
            /\ \A i \in 1..Len(b0) :
                  b0[i].name \notin DictKeys(m) =>
                      /\ b1[i].name = b0[i].name
                      /\ b1[i].use_deform = b0[i].use_deform

\* the orders in which the entries of the mapping m can be traversed
Reorderings(m) ==
    {[i \in 1..Len(m) |-> m[f[i]]] :
        f \in {g \in [1..Len(m) -> 1..Len(m)] : \A i, j \in 1..Len(m) : g[i] = g[j] => i = j}}

\* the bone names by bone after the rename of the armature's bones with m
NamesAfter(h, arm, m) ==
    LET bs == rename_bones_edit_mode_preserve_flags(h, arm, m).h.bones[arm]
    IN  [i \in 1..Len(bs) |-> bs[i].name]

OrderIndependent ==
    \A q \in Reorderings(args.mapping) :
        NamesAfter(pre.host, ArmB, q) = [i \in 1..Len(host.bones[ArmB]) |-> host.bones[ArmB][i].name]

\* no two entries of m have the same new name
DistinctNewNames(m) == \A j, k \in 1..Len(m) : m[j][2] = m[k][2] => j = k

----------------------------------------------------------------------------
(* SpecRenameRaise: rename_bones_edit_mode_preserve_flags when the host may *)
(* raise on one of the name assignments of its two loops                    *)

\* where the host raises: in no loop, or on the at-th pair of loop 1 or of loop 2
NoRaise == [phase |-> 0, at |-> 0]

RaisePoints(n) == {NoRaise} \cup {[phase |-> ph, at |-> k] : ph \in {1, 2}, k \in 1..n}

\* the function up to the end of the first loop, the assignment of pair `at` raising
RenameRaisePhase1(h1, arm_obj, pairs, at) ==
    [h |-> [h1 EXCEPT !.bones[arm_obj] = RenamePhase1(@, SubSeq(pairs, 1, at - 1))],
     raised |-> TRUE]

\* the function from _ensure_mode(arm_obj, 'OBJECT') on
RenameRaiseReturn(h1, arm_obj, pairs, deform_flags, r2) ==
    [h |-> [h1 EXCEPT !.mode = _ensure_mode(h1, arm_obj, "OBJECT").mode,
                      !.bones[arm_obj] =
                          RestoreDeform([bones |-> r2.bones, restored |-> 0],
                                        deform_flags, pairs).bones],
     raised |-> FALSE]

\* the second loop, the assignment of pair `at` raising if the loop makes it
RenameRaisePhase2(h1, arm_obj, pairs, deform_flags, at, r) ==
    IF at \in 1..Len(pairs) /\ (pairs[at][2] \o temp_suffix) \in BoneNames(r.bones)
    THEN [h |-> [h1 EXCEPT !.bones[arm_obj] = r.bones], raised |-> TRUE]
    ELSE RenameRaiseReturn(h1, arm_obj, pairs, deform_flags,
             RenamePhase2(r, SubSeq(pairs, IF at \in 1..Len(pairs) THEN at ELSE 1, Len(pairs))))

RenameRaiseLoops(h1, arm_obj, pairs, deform_flags, fail) ==
    IF fail.phase = 1 /\ fail.at <= Len(pairs)
    THEN RenameRaisePhase1(h1, arm_obj, pairs, fail.at)
    ELSE RenameRaisePhase2(h1, arm_obj, pairs, deform_flags,
             IF fail.phase = 2 THEN fail.at ELSE 0,
             RenamePhase2([bones |-> RenamePhase1(h1.bones[arm_obj], pairs), applied |-> 0],
                          SubSeq(pairs, 1, IF fail.phase = 2 /\ fail.at <= Len(pairs)
                                           THEN fail.at - 1 ELSE 0)))

RenameRaiseInEdit(h1, arm_obj, mapping, deform_flags, fail) ==
    RenameRaiseLoops(h1, arm_obj, RenamePairs(h1.bones[arm_obj], mapping), deform_flags, fail)

\* rename_bones_edit_mode_preserve_flags with an exception of the host let through:
\* [h, raised], h being the scene when control leaves the function
rename_bones_raising(h, arm_obj, mapping, fail) ==
    IF ~IsArmature(arm_obj) \/ mapping = <<>> THEN [h |-> h, raised |-> FALSE]
    ELSE RenameRaiseInEdit(_ensure_mode(_ensure_active(h, arm_obj), arm_obj, "EDIT"),
                           arm_obj, mapping, DeformFlags(h.bones[arm_obj]), fail)

InitRenameRaise ==
    /\ props = [PropsDefault EXCEPT !.target_armature = ArmB]
    /\ host = HostBase
    /\ disk = DiskEmpty
    /\ pc = "ready"
    /\ pre = [props |-> props, host |-> host]
    /\ last = NoCall
    /\ args \in {[mapping |-> m, pending |-> {}] : m \in {x \in MappingInputs : Len(x) <= 2}}

CallRenameRaising ==
    /\ pc = "ready"
    /\ \E fail \in RaisePoints(2) :
          LET r == rename_bones_raising(host, ArmB, args.mapping, fail)
          IN  /\ host' = r.h
              /\ last' = [op |-> "rename", out |-> fail,
                          result |-> IF r.raised THEN "RAISED" ELSE "RETURNED"]
    /\ pc' = "done"
    /\ pre' = [props |-> props, host |-> host]
    /\ UNCHANGED <<props, disk, args>>

SpecRenameRaise == InitRenameRaise /\ [][CallRenameRaising]_vars

(* C14: whenever rename_bones_edit_mode_preserve_flags has put the armature *)
(* in edit mode, the armature is in object mode when control leaves the     *)
(* function, also when a name assignment of the first or of the second loop *)
(* raises.                                                                  *)
C14_ArmatureReturnedToObject ==
    (pc = "done" /\ args.mapping # <<>>) => host.mode[ArmB] = "OBJECT"

\* without an exception the function agrees with rename_bones_edit_mode_preserve_flags
RaisingAgreesWhenNoRaise ==
    (pc = "done" /\ last.result = "RETURNED") =>
        host = rename_bones_edit_mode_preserve_flags(pre.host, ArmB, args.mapping).h

----------------------------------------------------------------------------
(* SpecText: mapping_to_txt, then parse_mapping_txt of what was written *)

TextAlphabet == {"a", EQ, HASH, SP, NL}

TextStrs == UNION {[1..n -> TextAlphabet] : n \in 0..MaxStrLen}

\* entries that follow the first one, of a key the first cannot have
ExtraEntries == {<<Str("b"), Str("a")>>, <<Str("b"), <<"a", EQ, "a">> >>}

TextMappings ==
    {<<>>} \cup
    {<<e>> \o x : e \in TextStrs \X TextStrs,
                  x \in {y \in UNION {[1..k -> ExtraEntries] : k \in 0..MaxExtra} : IsDict(y)}}

InitText ==
    /\ props = PropsDefault
    /\ host = HostBase
    /\ disk = DiskEmpty
    /\ pc = "ready"
    /\ pre = [props |-> props, host |-> host]
    /\ last = NoCall
    /\ args \in {[mapping |-> m, pending |-> {}] : m \in TextMappings}

CallSerialize ==
    /\ pc = "ready"
    /\ disk' = [disk EXCEPT ![PathMapTxt] = [exists |-> TRUE, text |-> mapping_to_txt(args.mapping)]]
    /\ pc' = "written"
    /\ UNCHANGED <<props, host, pre, last, args>>

CallParse ==
    /\ pc = "written"
    /\ last' = [op |-> "parse", result |-> "RETURNED", out |-> parse_mapping_txt(disk[PathMapTxt].text)]
    /\ pc' = "done"
    /\ UNCHANGED <<props, host, disk, pre, args>>

SpecText == InitText /\ [][CallSerialize \/ CallParse]_vars

Contains(s, a) == \E i \in 1..Len(s) : s[i] = a

\* the claim's precondition: non-empty keys and values, no "=" or newline in a key
RoundTripStated(m) ==
    \A i \in 1..Len(m) :
        /\ m[i][1] # <<>> /\ m[i][2] # <<>>
        /\ ~Contains(m[i][1], EQ) /\ ~Contains(m[i][1], NL)

\* what the line format needs besides
Trimmed(s) == Strip(s) = s

RoundTripAmended(m) ==
    /\ RoundTripStated(m)
    /\ \A i \in 1..Len(m) :
        /\ Trimmed(m[i][1]) /\ Trimmed(m[i][2])
        /\ Head(m[i][1]) # HASH
        /\ ~Contains(m[i][2], NL)

(* C8 (as stated): for any mapping with non-empty keys and values and no   *)
(* "=" or newline inside a key, parse(serialize(mapping)) = mapping.       *)
C8_RoundTripStated ==
    (pc = "done" /\ RoundTripStated(args.mapping)) => DictEq(last.out, args.mapping)

(* C8 (amended): the round trip holds when, besides, no key or value       *)
(* starts or ends with whitespace, no key starts with "#" and no value     *)
(* holds a line break.                                                     *)
C8_RoundTrip ==
    (pc = "done" /\ RoundTripAmended(args.mapping)) => DictEq(last.out, args.mapping)

\* two entries written and read back, one with "=" in its value, one with a space inside
C8_Witness ==
    /\ pc = "done"
    /\ RoundTripAmended(args.mapping)
    /\ Len(args.mapping) = 2
    /\ args.mapping[1] = << <<"a", "a">>, <<EQ, "a">> >>
    /\ Len(last.out) = 2

----------------------------------------------------------------------------
(* SpecPipeline: a seeded table with edited Rename names, Apply to the     *)
(* armature the Current column reflects, then Revert                       *)

Con(n, ty, tgt, sub) == [name |-> n, type |-> ty, target |-> tgt, subtarget |-> sub]

Fcu(n) == <<PoseTok(n), PropTok("location")>>

\* a scene whose armature `arm` is skinned, constrained, animated and driven
SceneFor(arm, mesh, vgs, assigned) ==
    [HostBase EXCEPT
        !.bones[arm][1].constraints = <<Con(<<"Copy Rotation">>, "COPY_ROTATION", arm, nB)>>,
        !.bones[arm][3].constraints = <<Con(<<"Copy Rotation">>, "COPY_ROTATION", arm, nA)>>,
        !.meshes[mesh] = [modifier_object |-> arm, vertex_groups |-> vgs],
        !.actions = <<[fcurves |-> <<Fcu(nA), Fcu(nB), Fcu(nD), <<PropTok("location")>> >>,
                       frame_range |-> <<1, 20>>]>>,
        !.animation_data[arm] = [action |-> IF assigned THEN 1 ELSE 0,
                                 drivers |-> << <<PoseTok(nA), PropTok("scale")>> >>]]

RenameTargets == {nA, nB, nC, nD}

\* _populate_bone_map_from(props, arm), then the Rename column edited by the user
SeededTable(t) == [i \in 1..3 |->
    [Row(<<nA, nB, nC>>[i], <<nA, nB, nC>>[i], t[i]) EXCEPT
        !.cap_src = <<nA, nB, nC>>[i], !.cap_tgt = <<nA, nB, nC>>[i]]]

VGChoices == {<<nA, nB, nC>>, <<nB, nA>>}

InitPipeline ==
    /\ \E side \in {"TARGET", "SOURCE"}, t \in [1..3 -> RenameTargets],
          vgs \in VGChoices, assigned \in BOOLEAN :
          /\ props = [PropsDefault EXCEPT !.source_armature = ArmA, !.target_armature = ArmB,
                                          !.current_armature_side = side,
                                          !.bone_map = SeededTable(t)]
          /\ host = IF side = "TARGET" THEN SceneFor(ArmB, Mesh1, vgs, assigned)
                                       ELSE SceneFor(ArmA, Mesh2, vgs, assigned)
    /\ disk = DiskEmpty
    /\ pc = "ready"
    /\ pre = [props |-> props, host |-> host]
    /\ last = NoCall
    /\ args = NoArgs

\* the rows an Apply to `arm` renames a bone for
AffectedRows(p, h, arm) ==
    {i \in Rows(p) : DictHas(ApplyMapping(p, h, arm), p.bone_map[i].original_name)}

DoApply(r, arm) ==
    /\ pc = "ready"
    /\ props' = r.p
    /\ host' = r.h
    /\ pre' = [props |-> props, host |-> host]
    /\ last' = [op |-> "apply", result |-> r.result, out |-> <<>>]
    /\ args' = [mapping |-> ApplyMapping(props, host, arm),
                pending |-> AffectedRows(props, host, arm)]
    /\ pc' = IF r.result = "FINISHED" THEN "applied" ELSE "cancelled"
    /\ UNCHANGED disk

DoApplyTarget ==
    /\ props.current_armature_side = "TARGET"
    /\ DoApply(apply_to_target(props, host), props.target_armature)

DoApplySource ==
    /\ props.current_armature_side = "SOURCE"
    /\ DoApply(apply_to_source(props, host), props.source_armature)

\* _on_mark_all_changed with mark_all = True
DoMarkAll ==
    /\ pc = "applied"
    /\ props' = [props EXCEPT !.bone_map = [i \in Rows(props) |->
                    [props.bone_map[i] EXCEPT !.mark = TRUE]]]
    /\ pc' = "marked"
    /\ UNCHANGED <<host, disk, pre, last, args>>

DoRevertMarked ==
    /\ pc = "marked"
    /\ LET r == revert_marked(props, host)
       IN  /\ props' = r.p
           /\ host' = r.h
           /\ last' = [op |-> "revert_marked", result |-> r.result, out |-> <<>>]
    /\ args' = [args EXCEPT !.pending = {}]
    /\ pc' = "reverted"
    /\ UNCHANGED <<disk, pre>>

DoRevertRow ==
    /\ pc \in {"applied", "reverting"}
    /\ \E i \in args.pending :
          LET r == revert_row(props, host, i - 1)
          IN  /\ props' = r.p
              /\ host' = r.h
              /\ last' = [op |-> "revert_row", result |-> r.result, out |-> <<>>]
              /\ args' = [args EXCEPT !.pending = @ \ {i}]
              /\ pc' = IF args.pending = {i} THEN "reverted" ELSE "reverting"
    /\ UNCHANGED <<disk, pre>>

NextPipeline == DoApplyTarget \/ DoApplySource \/ DoMarkAll \/ DoRevertMarked \/ DoRevertRow

SpecPipeline == InitPipeline /\ [][NextPipeline]_vars

\* what a rename must carry along: names and deform flags by bone, and every reference
SceneRefs(h, arm) ==
    [names |-> [i \in 1..Len(h.bones[arm]) |-> h.bones[arm][i].name],
     deform |-> [i \in 1..Len(h.bones[arm]) |-> h.bones[arm][i].use_deform],
     subtargets |-> [i \in 1..Len(h.bones[arm]) |->
                       [k \in 1..Len(h.bones[arm][i].constraints) |->
                           h.bones[arm][i].constraints[k].subtarget]],
     vertex_groups |-> [m \in Meshes |-> h.meshes[m].vertex_groups],
     fcurves |-> [a \in 1..Len(h.actions) |-> h.actions[a].fcurves],
     drivers |-> [o \in SeqToSet(Objects) |-> h.animation_data[o].drivers]]

(* C2: Apply to the armature the Current column reflects, followed by      *)
(* Revert-marked with every row marked or by Revert-row on each affected   *)
(* row, restores bone names, deform flags and every patched reference to   *)
(* their values before the Apply.                                          *)
C2_RevertSymmetry ==
    pc = "reverted" => SceneRefs(host, CurrentArm(props)) = SceneRefs(pre.host, CurrentArm(props))

\* no new name of the mapping is itself a key of it
NoNewIsKey(m) == \A i \in 1..Len(m) : ~DictHas(m, m[i][2])

\* the path with every pose-bone token of a key replaced by the key's new name
PathRenamed(dp, m) ==
    [i \in 1..Len(dp) |->
        IF dp[i].kind = "pose.bones" /\ DictHas(m, dp[i].name)
        THEN PoseTok(DictGet(m, dp[i].name)) ELSE dp[i]]

PathsPreserved(h0, h1, m) ==
    /\ \A a \in 1..Len(h0.actions) : \A f \in 1..Len(h0.actions[a].fcurves) :
          h1.actions[a].fcurves[f] = PathRenamed(h0.actions[a].fcurves[f], m)
    /\ \A o \in SeqToSet(Objects) : \A f \in 1..Len(h0.animation_data[o].drivers) :
          h1.animation_data[o].drivers[f] = PathRenamed(h0.animation_data[o].drivers[f], m)

VGRenamed(n, m) == IF DictHas(m, n) THEN DictGet(m, n) ELSE n

(* C3 (as stated): after Apply with a mapping M in which no new name is a  *)
(* key, every path token pose.bones["old"] reads pose.bones["M[old]"],     *)
(* every vertex group named old on a bound mesh is named M[old], and every *)
(* path and vertex group of a name not in M is unchanged.                  *)
C3_ReferencePreservationStated ==
    (pc = "applied" /\ NoNewIsKey(args.mapping)) =>
        /\ PathsPreserved(pre.host, host, args.mapping)
        /\ \A mesh \in MeshesUsing(pre.host, CurrentArm(props)) :
              \A j \in 1..Len(pre.host.meshes[mesh].vertex_groups) :
                  host.meshes[mesh].vertex_groups[j] =
                      VGRenamed(pre.host.meshes[mesh].vertex_groups[j], args.mapping)

(* C3 (amended): the same, except that a vertex group named old is named   *)
(* M[old] only when no other vertex group of that mesh has, or is given,   *)
(* the name M[old]: the host keeps vertex-group names unique.              *)
C3_ReferencePreservation ==
    (pc = "applied" /\ NoNewIsKey(args.mapping)) =>
        /\ PathsPreserved(pre.host, host, args.mapping)
        /\ \A mesh \in MeshesUsing(pre.host, CurrentArm(props)) :
              LET v0 == pre.host.meshes[mesh].vertex_groups
                  v1 == host.meshes[mesh].vertex_groups
              IN  /\ Len(v1) = Len(v0)
                  /\ \A j \in 1..Len(v0) :
                        (\A q \in (1..Len(v0)) \ {j} :
                            VGRenamed(v0[q], args.mapping) # VGRenamed(v0[j], args.mapping))
                        => v1[j] = VGRenamed(v0[j], args.mapping)

\* A -> D applied: the curve and the driver of A read D, the vertex group A is D,
\* the curve of B is as it was
C3_Witness ==
    /\ pc = "applied"
    /\ args.mapping = << <<nA, nD>> >>
    /\ host.actions[1].fcurves[1] = Fcu(nD)
    /\ host.actions[1].fcurves[2] = Fcu(nB)
    /\ host.animation_data[CurrentArm(props)].drivers[1][1] = PoseTok(nD)
    /\ \E mesh \in Meshes : host.meshes[mesh].vertex_groups = <<nD, nB, nC>>

----------------------------------------------------------------------------
(* Export commands.  The exporter is the host's: each invocation either    *)
(* returns ("ok") or raises ("raise"); `outs` lists the outcomes of the    *)
(* invocations of one command in order.  A world transform is a number of  *)
(* quarter turns, and rot_z the quarter turns of the export rotation.      *)

\* _select_for_export(arm_obj, include_mesh)
_select_for_export(h, arm_obj, include_mesh) ==
    LET sel == {arm_obj} \cup (IF include_mesh THEN MeshesUsing(h, arm_obj) ELSE {})
    IN  [_ensure_active([h EXCEPT !.selected_objects = {arm_obj}], arm_obj)
            EXCEPT !.selected_objects = sel]

HasPose(act) ==
    /\ act.fcurves # <<>>
    /\ \E f \in 1..Len(act.fcurves) : \E i \in 1..Len(act.fcurves[f]) :
          act.fcurves[f][i].kind = "pose.bones"

RECURSIVE PoseActions(_, _)
PoseActions(h, i) ==
    IF i > Len(h.actions) THEN <<>>
    ELSE (IF HasPose(h.actions[i]) THEN <<i>> ELSE <<>>) \o PoseActions(h, i + 1)

\* _gather_actions_for_armature(arm_obj): the actions by index, 0 being None
_gather_actions_for_armature(h, arm_obj) ==
    LET acts == PoseActions(h, 1)
        cur == h.animation_data[arm_obj].action
    IN  IF cur # 0 /\ cur \notin SeqToSet(acts) THEN Append(acts, cur) ELSE acts

\* inv = {v: k for k, v in mapping.items()}
RECURSIVE InverseMapping(_, _)
InverseMapping(mapping, inv) ==
    IF mapping = <<>> THEN inv
    ELSE InverseMapping(Tail(mapping), DictPut(inv, Head(mapping)[2], Head(mapping)[1]))

\* _apply_temp_mapping_if_needed(props, arm) -> [h, inv]; inv = <<>> is None
_apply_temp_mapping_if_needed(p, h, arm) ==
    IF ~p.rename_on_export THEN [h |-> h, inv |-> <<>>]
    ELSE LET mapping == ApplyMapping(p, h, arm)
         IN  IF mapping = <<>> THEN [h |-> h, inv |-> <<>>]
             ELSE [h |-> RenameAndPatch(h, arm, mapping),
                   inv |-> InverseMapping(mapping, <<>>)]

\* _revert_temp_mapping(inv_mapping, arm)
_revert_temp_mapping(h, inv_mapping, arm) ==
    IF inv_mapping = <<>> THEN h ELSE RenameAndPatch(h, arm, inv_mapping)

BVHRot == <<"AJ_BVH_ROT">>
Helper == "AJ_BVH_Rotate_Helper"

ConNames(b) == {b.constraints[k].name : k \in 1..Len(b.constraints)}

\* _apply_bvh_rotation_to_roots(arm, rx, ry, rz)
_apply_bvh_rotation_to_roots(h, arm) ==
    [h EXCEPT !.helpers = @ + 1,
              !.bones[arm] = [i \in 1..Len(@) |->
                  IF @[i].parent = 0
                  THEN [@[i] EXCEPT !.constraints =
                          Append(@, Con(UniqueName(BVHRot, ConNames(h.bones[arm][i])),
                                        "COPY_ROTATION", Helper, Empty))]
                  ELSE @[i]]]

\* _clear_bvh_rotation_helper(empty, arm)
_clear_bvh_rotation_helper(h, arm) ==
    [h EXCEPT !.helpers = @ - 1,
              !.bones[arm] = [i \in 1..Len(@) |->
                  [@[i] EXCEPT !.constraints = SelectSeq(@, LAMBDA c : c.name # BVHRot)]]]

\* a _restore_world that leaves the meshes rotated
_restore_world_arm_only(h, originals) ==
    [h EXCEPT !.matrix_world = [o \in DOMAIN @ |->
        IF o \in DOMAIN originals /\ o \in Armatures THEN originals[o] ELSE @[o]]]

\* _temporarily_rotate_world(objs, rx, ry, rz) -> [h, originals]
_temporarily_rotate_world(h, objs, rot) ==
    [h |-> [h EXCEPT !.matrix_world = [o \in DOMAIN @ |->
                IF o \in objs THEN (rot + @[o]) % 4 ELSE @[o]]],
     originals |-> [o \in objs |-> h.matrix_world[o]]]

\* _restore_world(objs_originals)
_restore_world(h, originals) ==
    [h EXCEPT !.matrix_world = [o \in DOMAIN @ |->
        IF o \in DOMAIN originals THEN originals[o] ELSE @[o]]]

ExportArm(p) == IF p.export_side = "TARGET" THEN p.target_armature ELSE p.source_armature

SetFrames(h, fs, fe) == [h EXCEPT !.frame_start = fs, !.frame_end = fe]

\* what one exporter invocation saw and left: the action exported (0 the pose, -1 all
\* as takes), the outcome, the world transforms before the rotation, while the
\* exporter ran and after the restore, and the frame range while it ran
Invocation(act, outcome, before, during, after) ==
    [action |-> act, outcome |-> outcome, world_before |-> before.matrix_world,
     world_during |-> during.matrix_world, world_after |-> after.matrix_world,
     frames |-> <<during.frame_start, during.frame_end>>]

\* the try block of the three commands: the exporter call, with the BVH helper around it
TryExport(p, h, arm, outcome) ==
    IF p.export_format = "FBX" THEN h
    ELSE LET h1 == _apply_bvh_rotation_to_roots(h, arm)
         IN  IF outcome = "ok" THEN _clear_bvh_rotation_helper(h1, arm) ELSE h1

\* from objs_to_rotate to the end of the try block -> [h, originals]
RotateSelectExport(p, arm, h, rotate_meshes, select_meshes, outcome) ==
    LET objs_to_rotate == {arm} \cup (IF rotate_meshes THEN MeshesUsing(h, arm) ELSE {})
        rw == _temporarily_rotate_world(h, objs_to_rotate, p.rot_z)
    IN  [h |-> TryExport(p, _select_for_export(rw.h, arm, select_meshes), arm, outcome),
         originals |-> rw.originals]

\* export_current_action from the except clause or the end of the try block on
ExportCurrentEnd(p, arm, act, outcome, h1, x, orig, inv) ==
    LET h4 == _restore_world(x.h, x.originals)
    IN  [p |-> p,
         h |-> _revert_temp_mapping(SetFrames(h4, orig[1], orig[2]), inv, arm),
         result |-> IF outcome = "ok" THEN "FINISHED" ELSE "CANCELLED",
         log |-> <<Invocation(act, outcome, h1, x.h, h4)>>]

\* export_current_action from `scene = bpy.context.scene` to the try block
ExportCurrentBody(p, arm, t, act, outcome, h1) ==
    ExportCurrentEnd(p, arm, act, outcome, h1,
        RotateSelectExport(p, arm, h1, p.export_format = "FBX" /\ p.include_mesh,
                           p.include_mesh /\ p.export_format = "FBX", outcome),
        <<t.h.frame_start, t.h.frame_end>>, t.inv)

ExportCurrentRenamed(p, arm, t, act, outcome) ==
    ExportCurrentBody(p, arm, t, act, outcome,
        IF act # 0
        THEN SetFrames(t.h, t.h.actions[act].frame_range[1], t.h.actions[act].frame_range[2])
        ELSE t.h)

ExportCurrentFrom(p, arm, t, outcome) ==
    ExportCurrentRenamed(p, arm, t, t.h.animation_data[arm].action, outcome)

\* AJ_OT_export_current_action.execute -> [p, h, result, log]
export_current_action(p, h, outs) ==
    IF ~IsArmature(ExportArm(p)) THEN [p |-> p, h |-> h, result |-> "CANCELLED", log |-> <<>>]
    ELSE ExportCurrentFrom(p, ExportArm(p),
                           _apply_temp_mapping_if_needed(p, h, ExportArm(p)), outs[1])

\* a pass that counts the file as exported whether or not the exporter raised
ExportEachEndCountAll(r, arm, act, outcome, old_action, h1, x, h4) ==
    [h |-> [h4 EXCEPT !.animation_data[arm].action = old_action],
     log |-> Append(r.log, Invocation(act, outcome, h1, x.h, h4)),
     exported |-> r.exported + 1]

\* one pass of `for act in acts` from _restore_world on
ExportEachEnd(r, arm, act, outcome, old_action, h1, x, h4) ==
    [h |-> [h4 EXCEPT !.animation_data[arm].action = old_action],
     log |-> Append(r.log, Invocation(act, outcome, h1, x.h, h4)),
     exported |-> r.exported + (IF outcome = "ok" THEN 1 ELSE 0)]

ExportEachTry(p, r, arm, act, outcome, old_action, h1, x) ==
    ExportEachEnd(r, arm, act, outcome, old_action, h1, x, _restore_world(x.h, x.originals))

ExportEachBody(p, r, arm, act, outcome, old_action, h1) ==
    ExportEachTry(p, r, arm, act, outcome, old_action, h1,
        RotateSelectExport(p, arm, h1, p.export_format = "FBX" /\ p.include_mesh,
                           p.include_mesh /\ p.export_format = "FBX", outcome))

\* one pass of `for act in acts` of AJ_OT_export_all_actions.execute
ExportOnePass(p, r, arm, act, outcome, orig, h0) ==
    ExportEachBody(p, r, arm, act, outcome, r.h.animation_data[arm].action,
        IF act # 0
        THEN SetFrames(h0, h0.actions[act].frame_range[1], h0.actions[act].frame_range[2])
        ELSE SetFrames(h0, orig[1], orig[2]))

\* for act in acts: ... -> [h, log, exported]
RECURSIVE ExportEach(_, _, _, _, _, _)
ExportEach(p, r, arm, acts, outs, orig) ==
    IF acts = <<>> THEN r
    ELSE ExportEach(p,
            ExportOnePass(p, r, arm, Head(acts), Head(outs), orig,
                          [r.h EXCEPT !.animation_data[arm].action = Head(acts)]),
            arm, Tail(acts), Tail(outs), orig)

ExportAllEnd(p, arm, t, r) ==
    [p |-> p,
     h |-> _revert_temp_mapping(SetFrames(r.h, t.h.frame_start, t.h.frame_end), t.inv, arm),
     result |-> "FINISHED", log |-> r.log, exported |-> r.exported]

ExportAllFrom(p, arm, acts, t, outs) ==
    ExportAllEnd(p, arm, t,
        ExportEach(p, [h |-> t.h, log |-> <<>>, exported |-> 0], arm,
                   IF acts = <<>> THEN <<0>> ELSE acts, outs,
                   <<t.h.frame_start, t.h.frame_end>>))

\* AJ_OT_export_all_actions.execute -> [p, h, result, log, exported]
export_all_actions(p, h, outs) ==
    IF ~IsArmature(ExportArm(p))
    THEN [p |-> p, h |-> h, result |-> "CANCELLED", log |-> <<>>, exported |-> 0]
    ELSE ExportAllFrom(p, ExportArm(p), _gather_actions_for_armature(h, ExportArm(p)),
                       _apply_temp_mapping_if_needed(p, h, ExportArm(p)), outs)

Min(S) == CHOOSE x \in S : \A y \in S : x <= y
Max(S) == CHOOSE x \in S : \A y \in S : y <= x

\* export_fbx_all_actions_onefile from the except clause or the end of the try block on
ExportOneFileEnd(p, arm, outcome, h1, x, t) ==
    LET h4 == _restore_world(SetFrames(x.h, t.h.frame_start, t.h.frame_end), x.originals)
    IN  [p |-> p,
         h |-> _revert_temp_mapping(h4, t.inv, arm),
         result |-> IF outcome = "ok" THEN "FINISHED" ELSE "CANCELLED",
         log |-> <<Invocation(0 - 1, outcome, h1, x.h, h4)>>]

ExportOneFileBody(p, arm, outcome, h1, t) ==
    ExportOneFileEnd(p, arm, outcome, h1,
        RotateSelectExport(p, arm, h1, p.include_mesh, TRUE, outcome), t)

ExportOneFileFrom(p, arm, acts, t, outcome) ==
    ExportOneFileBody(p, arm, outcome,
        IF acts # <<>>
        THEN SetFrames(t.h, Min({t.h.actions[acts[i]].frame_range[1] : i \in 1..Len(acts)}),
                            Max({t.h.actions[acts[i]].frame_range[2] : i \in 1..Len(acts)}))
        ELSE t.h,
        t)

\* AJ_OT_export_fbx_all_actions_onefile.execute -> [p, h, result, log]
export_fbx_all_actions_onefile(p, h, outs) ==
    IF p.export_format # "FBX" \/ ~IsArmature(ExportArm(p))
    THEN [p |-> p, h |-> h, result |-> "CANCELLED", log |-> <<>>]
    ELSE ExportOneFileFrom(p, ExportArm(p), _gather_actions_for_armature(h, ExportArm(p)),
                           _apply_temp_mapping_if_needed(p, h, ExportArm(p)), outs[1])

----------------------------------------------------------------------------
(* SpecExport: a seeded, edited table and one export command on the Target *)

Outcomes == {"ok", "raise"}

\* the scene of SpecPipeline with the meshes placed, and a second action that
\* animates no bone
SceneExport(assigned) ==
    [SceneFor(ArmB, Mesh1, <<nA, nB, nC>>, assigned # 0) EXCEPT
        !.actions = Append(@, [fcurves |-> << <<PropTok("location")>> >>,
                               frame_range |-> <<5, 300>>]),
        !.animation_data[ArmB].action = assigned,
        !.matrix_world = [o \in DOMAIN @ |-> IF o \in Meshes THEN 1 ELSE 2]]

\* the Rename column as edited: any name for A and B, C kept or renamed D
ExportTables == {t \in [1..3 -> RenameTargets] : t[3] \in {nC, nD}}

InitExport ==
    /\ \E t \in ExportTables, fmt \in {"FBX", "BVH"}, inc \in BOOLEAN,
          ren \in BOOLEAN, rot \in {1}, assigned \in 0..2 :
          /\ props = [PropsDefault EXCEPT !.source_armature = ArmA, !.target_armature = ArmB,
                                          !.bone_map = SeededTable(t),
                                          !.export_format = fmt, !.include_mesh = inc,
                                          !.rename_on_export = ren, !.rot_z = rot]
          /\ host = SceneExport(assigned)
    /\ disk = DiskEmpty
    /\ pc = "ready"
    /\ pre = [props |-> props, host |-> host]
    /\ last = NoCall
    /\ args = NoArgs

\* `exported` is the number of files the command's final report announces
DoExport(op, r, exported) ==
    /\ props' = r.p
    /\ host' = r.h
    /\ pre' = [props |-> props, host |-> host]
    /\ last' = [op |-> op, result |-> r.result, out |-> r.log, exported |-> exported]
    /\ args' = [mapping |-> IF props.rename_on_export
                            THEN ApplyMapping(props, host, ExportArm(props)) ELSE <<>>,
                pending |-> {}]
    /\ pc' = "exported"
    /\ UNCHANGED disk

DoExportCurrent ==
    /\ pc = "ready"
    /\ \E outs \in [1..1 -> Outcomes] :
          LET r == export_current_action(props, host, outs)
          IN  DoExport("export_current_action", r, IF r.result = "FINISHED" THEN 1 ELSE 0)

DoExportAll ==
    /\ pc = "ready"
    /\ LET n == Len(_gather_actions_for_armature(host, ExportArm(props)))
       IN  \E outs \in [1..(IF n = 0 THEN 1 ELSE n) -> Outcomes] :
              LET r == export_all_actions(props, host, outs)
              IN  DoExport("export_all_actions",
                           [p |-> r.p, h |-> r.h, result |-> r.result, log |-> r.log],
                           r.exported)

DoExportOneFile ==
    /\ pc = "ready"
    /\ \E outs \in [1..1 -> Outcomes] :
          LET r == export_fbx_all_actions_onefile(props, host, outs)
          IN  DoExport("export_fbx_all_actions_onefile", r,
                       IF r.result = "FINISHED" THEN 1 ELSE 0)

NextExport == DoExportCurrent \/ DoExportAll \/ DoExportOneFile

SpecExport == InitExport /\ [][NextExport]_vars

\* bone names, deform flags, vertex groups, the subtargets of the constraints that
\* were there before, curve and driver paths
RenamedState(h, h0, arm) ==
    [names |-> [i \in 1..Len(h.bones[arm]) |-> h.bones[arm][i].name],
     deform |-> [i \in 1..Len(h.bones[arm]) |-> h.bones[arm][i].use_deform],
     subtargets |-> [i \in 1..Len(h.bones[arm]) |->
                       [k \in 1..Len(h0.bones[arm][i].constraints) |->
                           h.bones[arm][i].constraints[k].subtarget]],
     vertex_groups |-> [m \in Meshes |-> h.meshes[m].vertex_groups],
     fcurves |-> [a \in 1..Len(h.actions) |-> h.actions[a].fcurves],
     drivers |-> [o \in SeqToSet(Objects) |-> h.animation_data[o].drivers]]

(* C4: with rename-on-export enabled, when any of the three export         *)
(* commands returns, whether the exporter succeeded or raised, the bone    *)
(* names, deform flags, vertex-group names, constraint subtargets and      *)
(* curve and driver paths equal their values before the command started.   *)
C4_ExportRevertsRename ==
    (pc = "exported" /\ props.rename_on_export) =>
        RenamedState(host, pre.host, ExportArm(props)) =
            RenamedState(pre.host, pre.host, ExportArm(props))

(* C5: for each export command, after every exporter invocation, ok or     *)
(* raising, the world transform of the armature and of every rotated mesh  *)
(* equals its value before the rotation, and when the command returns the  *)
(* scene frame_start and frame_end equal their values before the command.  *)
C5_ExportRestoresWorldAndFrames ==
    pc = "exported" =>
        /\ \A k \in 1..Len(last.out) : last.out[k].world_after = last.out[k].world_before
        /\ host.matrix_world = pre.host.matrix_world
        /\ host.frame_start = pre.host.frame_start
        /\ host.frame_end = pre.host.frame_end

\* a batch export of two actions, the first invocation raising, with the armature and
\* its mesh rotated and the frame range set to the action's while the exporter ran
C5_Witness ==
    /\ pc = "exported"
    /\ last.op = "export_all_actions"
    /\ Len(last.out) = 2
    /\ last.out[1].outcome = "raise"
    /\ last.out[2].outcome = "ok"
    /\ last.out[1].world_during[ArmB] # last.out[1].world_before[ArmB]
    /\ last.out[1].world_during[Mesh1] # last.out[1].world_before[Mesh1]
    /\ last.out[2].frames = <<5, 300>>
    /\ host.frame_end = pre.host.frame_end

\* the invocations of the last export command that did not raise
OkInvocations == {k \in 1..Len(last.out) : last.out[k].outcome = "ok"}

(* C13: 'export all actions to separate files' on a valid armature invokes *)
(* the exporter exactly once for every action in scope whatever the        *)
(* earlier invocations did, reports as exported the number of invocations  *)
(* that did not raise, and finishes; 'export current action' returns       *)
(* cancelled when its exporter invocation raises.                          *)
C13_BatchExportIsolatesFailures ==
    /\ (pc = "exported" /\ last.op = "export_all_actions"
            /\ IsArmature(ExportArm(pre.props))) =>
          LET acts == _gather_actions_for_armature(pre.host, ExportArm(pre.props))
          IN  /\ \A a \in SeqToSet(acts) :
                    Cardinality({k \in 1..Len(last.out) : last.out[k].action = a}) = 1
              /\ acts # <<>> => Len(last.out) = Len(acts)
              /\ last.exported = Cardinality(OkInvocations)
              /\ last.result = "FINISHED"
    /\ (pc = "exported" /\ last.op = "export_current_action"
            /\ Len(last.out) = 1 /\ last.out[1].outcome = "raise") =>
          last.result = "CANCELLED"

\* two actions in scope, the exporter raising on the first: the second is still
\* exported and one file is reported
C13_Witness ==
    /\ pc = "exported"
    /\ last.op = "export_all_actions"
    /\ _gather_actions_for_armature(pre.host, ExportArm(pre.props)) = <<1, 2>>
    /\ last.out[1].action = 1 /\ last.out[1].outcome = "raise"
    /\ last.out[2].action = 2 /\ last.out[2].outcome = "ok"
    /\ last.exported = 1
    /\ last.result = "FINISHED"

----------------------------------------------------------------------------
(* Live-follow constraints                                                  *)

AJ_CON_PREFIX == "AJ_FOLLOW"

\* con.name.startswith(AJ_CON_PREFIX)
IsFollowCon(c) == c.name # <<>> /\ Head(c.name) = AJ_CON_PREFIX

\* pb.constraints.new(type), con.name = name, con.target, con.subtarget
NewConstraint(b, name, ty, tgt, sub) ==
    [b EXCEPT !.constraints = Append(@, Con(UniqueName(name, ConNames(b)), ty, tgt, sub))]

\* for con in list(pb.constraints): if con.name.startswith(AJ_CON_PREFIX): remove
DropFollowCons(b) == [b EXCEPT !.constraints = SelectSeq(@, LAMBDA c : ~IsFollowCon(c))]

\* the body of `for it in props.bone_map` past the direction test, for one row
AddFollowTo(p, h, src_arm, src_bone, dst_arm, dst_bone) ==
    LET i == BoneIdx(h.bones[dst_arm], dst_bone)
        pb == DropFollowCons(h.bones[dst_arm][i])
    IN  [h EXCEPT !.bones[dst_arm][i] =
            IF p.follow_mode = "XFORM"
            THEN NewConstraint(pb, <<AJ_CON_PREFIX, "_XFORM">>, "COPY_TRANSFORMS", src_arm, src_bone)
            ELSE NewConstraint(pb, <<AJ_CON_PREFIX, "_ROT">>, "COPY_ROTATION", src_arm, src_bone)]

\* whether the loop reaches the constraint for row `it`
FollowQualifies(p, h, it, direction) ==
    /\ Truthy(it.original_name) /\ Truthy(it.target_name)
    /\ IF direction = "A2B"
       THEN _bone_exists(h, p.source_armature, it.original_name)
            /\ _bone_exists(h, p.target_armature, it.target_name)
       ELSE _bone_exists(h, p.target_armature, it.target_name)
            /\ _bone_exists(h, p.source_armature, it.original_name)

RECURSIVE AddFollowRows(_, _, _, _)
AddFollowRows(p, r, direction, i) ==
    IF i > Len(p.bone_map) THEN r
    ELSE IF ~FollowQualifies(p, r.h, p.bone_map[i], direction)
         THEN AddFollowRows(p, r, direction, i + 1)
         ELSE AddFollowRows(p,
                [h |-> IF direction = "A2B"
                       THEN AddFollowTo(p, r.h, p.source_armature, p.bone_map[i].original_name,
                                        p.target_armature, p.bone_map[i].target_name)
                       ELSE AddFollowTo(p, r.h, p.target_armature, p.bone_map[i].target_name,
                                        p.source_armature, p.bone_map[i].original_name),
                 count |-> r.count + 1],
                direction, i + 1)

\* _add_follow_constraints(props, direction) -> [h, count]
_add_follow_constraints(p, h, direction) ==
    IF ~(IsArmature(p.source_armature) /\ IsArmature(p.target_armature))
    THEN [h |-> h, count |-> 0]
    ELSE AddFollowRows(p, [h |-> h, count |-> 0], direction, 1)

FollowCount(h, arm) ==
    LET n[i \in 0..Len(h.bones[arm])] ==
            IF i = 0 THEN 0
            ELSE n[i - 1] + Len(SelectSeq(h.bones[arm][i].constraints, IsFollowCon))
    IN  n[Len(h.bones[arm])]

RemoveFollowFrom(h, arm) ==
    [h EXCEPT !.bones[arm] = [i \in 1..Len(@) |-> DropFollowCons(@[i])]]

\* a removal that visits the Target armature only
_remove_follow_constraints_target_only(p, h) ==
    IF IsArmature(p.target_armature)
    THEN [h |-> RemoveFollowFrom(h, p.target_armature),
          removed |-> FollowCount(h, p.target_armature)]
    ELSE [h |-> h, removed |-> 0]

RECURSIVE RemoveFollowArms(_, _)
RemoveFollowArms(r, arms) ==
    IF arms = <<>> THEN r
    ELSE IF ~IsArmature(Head(arms)) THEN RemoveFollowArms(r, Tail(arms))
         ELSE RemoveFollowArms([h |-> RemoveFollowFrom(r.h, Head(arms)),
                                removed |-> r.removed + FollowCount(r.h, Head(arms))],
                               Tail(arms))

\* _remove_follow_constraints(props) -> [h, removed]
_remove_follow_constraints(p, h) ==
    RemoveFollowArms([h |-> h, removed |-> 0], <<p.source_armature, p.target_armature>>)

FollowOn(p, removed, direction) ==
    LET r == _add_follow_constraints(p, removed.h, direction)
    IN  [p |-> p, h |-> r.h, result |-> "FINISHED", out |-> r.count]

FollowOff(p, removed) == [p |-> p, h |-> removed.h, result |-> "FINISHED", out |-> removed.removed]

\* a Source->Target toggle that leaves the flag of the other direction as it is
toggle_follow_a2b_keeping(p, h) ==
    IF ~p.live_follow_a2b
    THEN FollowOn([p EXCEPT !.live_follow_a2b = TRUE], _remove_follow_constraints(p, h), "A2B")
    ELSE FollowOff([p EXCEPT !.live_follow_a2b = FALSE], _remove_follow_constraints(p, h))

\* AJ_OT_toggle_follow_a2b.execute -> [p, h, result, out]
toggle_follow_a2b(p, h) ==
    IF ~p.live_follow_a2b
    THEN FollowOn([p EXCEPT !.live_follow_a2b = TRUE, !.live_follow_b2a = FALSE],
                  _remove_follow_constraints(p, h), "A2B")
    ELSE FollowOff([p EXCEPT !.live_follow_a2b = FALSE], _remove_follow_constraints(p, h))

\* AJ_OT_toggle_follow_b2a.execute -> [p, h, result, out]
toggle_follow_b2a(p, h) ==
    IF ~p.live_follow_b2a
    THEN FollowOn([p EXCEPT !.live_follow_b2a = TRUE, !.live_follow_a2b = FALSE],
                  _remove_follow_constraints(p, h), "B2A")
    ELSE FollowOff([p EXCEPT !.live_follow_b2a = FALSE], _remove_follow_constraints(p, h))

\* AJ_OT_clear_follow.execute -> [p, h, result, out]
clear_follow(p, h) ==
    FollowOff([p EXCEPT !.live_follow_a2b = FALSE, !.live_follow_b2a = FALSE],
              _remove_follow_constraints(p, h))

----------------------------------------------------------------------------
(* SpecFollow: a two-row table over Source ArmA and Target ArmB, the       *)
(* follow toggles in any order, and the user editing a Rename cell or the  *)
(* follow mode in between                                                  *)

FollowOriginals == {nA, nB, nD}
FollowTargets == {nA, nB, nD, Empty}

\* each armature's first bone carries a constraint of the user's
SceneFollow ==
    [HostBase EXCEPT
        !.bones[ArmA][1].constraints = <<Con(<<"Copy Rotation">>, "COPY_ROTATION", ArmB, nA)>>,
        !.bones[ArmB][1].constraints = <<Con(<<"Copy Rotation">>, "COPY_ROTATION", ArmA, nA)>>]

InitFollow ==
    /\ \E o \in [1..2 -> FollowOriginals], t \in [1..2 -> FollowTargets] :
          props = [PropsDefault EXCEPT !.source_armature = ArmA, !.target_armature = ArmB,
                                       !.bone_map = [i \in 1..2 |-> Row(o[i], o[i], t[i])]]
    /\ host = SceneFollow
    /\ disk = DiskEmpty
    /\ pc = "ready"
    /\ pre = [props |-> props, host |-> host]
    /\ last = NoCall
    /\ args = NoArgs

DoFollow(op, r) ==
    /\ props' = r.p
    /\ host' = r.h
    /\ pre' = [props |-> props, host |-> host]
    /\ last' = [op |-> op, result |-> r.result, out |-> r.out]
    /\ pc' = "followed"
    /\ UNCHANGED <<disk, args>>

DoToggleA2B == DoFollow("toggle_follow_a2b", toggle_follow_a2b(props, host))

DoToggleB2A == DoFollow("toggle_follow_b2a", toggle_follow_b2a(props, host))

DoClearFollow == DoFollow("clear_follow", clear_follow(props, host))

\* the user types a name into the Rename cell of a row
DoEditRename ==
    /\ \E i \in Rows(props), t \in FollowTargets :
          /\ props.bone_map[i].target_name # t
          /\ props' = [props EXCEPT !.bone_map[i].target_name = t]
    /\ pc' = "ready"
    /\ last' = NoCall
    /\ pre' = [props |-> props, host |-> host]
    /\ UNCHANGED <<host, disk, args>>

\* the user picks the other follow mode
DoSetFollowMode ==
    /\ props' = [props EXCEPT !.follow_mode = IF @ = "ROT" THEN "XFORM" ELSE "ROT"]
    /\ pc' = "ready"
    /\ last' = NoCall
    /\ pre' = [props |-> props, host |-> host]
    /\ UNCHANGED <<host, disk, args>>

NextFollow == DoToggleA2B \/ DoToggleB2A \/ DoClearFollow \/ DoEditRename \/ DoSetFollowMode

SpecFollow == InitFollow /\ [][NextFollow]_vars

QualifyingRows(p, h, direction) ==
    {i \in Rows(p) : FollowQualifies(p, h, p.bone_map[i], direction)}

\* bone `name` of `arm` carries a reserved-prefix constraint to bone `sub` of `tgt`
Follows(h, arm, name, tgt, sub) ==
    \E i \in 1..Len(h.bones[arm]) :
        /\ h.bones[arm][i].name = name
        /\ \E k \in 1..Len(h.bones[arm][i].constraints) :
              /\ IsFollowCon(h.bones[arm][i].constraints[k])
              /\ h.bones[arm][i].constraints[k].target = tgt
              /\ h.bones[arm][i].constraints[k].subtarget = sub

EnabledOver(op, was) == pc = "followed" /\ last.op = op /\ was

(* C6 (as stated): enabling Source->Target follow while Target->Source is  *)
(* active leaves no reserved-prefix constraint on the Source armature, and *)
(* those on the Target are exactly one per qualifying row, on the row's    *)
(* target-named bone, with target Source and subtarget the row's original  *)
(* name; symmetrically for enabling Target->Source.                        *)
C6_FollowExclusivityStated ==
    /\ EnabledOver("toggle_follow_a2b", pre.props.live_follow_b2a) =>
          LET q == QualifyingRows(props, host, "A2B")
          IN  /\ FollowCount(host, ArmA) = 0
              /\ FollowCount(host, ArmB) = Cardinality(q)
              /\ \A i \in q : Follows(host, ArmB, props.bone_map[i].target_name,
                                      ArmA, props.bone_map[i].original_name)
    /\ EnabledOver("toggle_follow_b2a", pre.props.live_follow_a2b) =>
          LET q == QualifyingRows(props, host, "B2A")
          IN  /\ FollowCount(host, ArmB) = 0
              /\ FollowCount(host, ArmA) = Cardinality(q)
              /\ \A i \in q : Follows(host, ArmA, props.bone_map[i].original_name,
                                      ArmB, props.bone_map[i].target_name)

\* no qualifying row after row i installs on the same bone
LastFor(p, q, i, direction) ==
    \A j \in q : j > i =>
        IF direction = "A2B" THEN p.bone_map[j].target_name # p.bone_map[i].target_name
        ELSE p.bone_map[j].original_name # p.bone_map[i].original_name

(* C6 (amended): ... the reserved-prefix constraints on the Target are     *)
(* exactly one per bone that a qualifying row names as its target, with    *)
(* target Source and subtarget the original name of the last qualifying    *)
(* row naming that bone; symmetrically for enabling Target->Source, one    *)
(* per Source bone named as original by a qualifying row.                  *)
C6_FollowExclusivity ==
    /\ EnabledOver("toggle_follow_a2b", pre.props.live_follow_b2a) =>
          LET q == QualifyingRows(props, host, "A2B")
          IN  /\ FollowCount(host, ArmA) = 0
              /\ FollowCount(host, ArmB) = Cardinality({props.bone_map[i].target_name : i \in q})
              /\ \A i \in q : LastFor(props, q, i, "A2B") =>
                    Follows(host, ArmB, props.bone_map[i].target_name,
                            ArmA, props.bone_map[i].original_name)
    /\ EnabledOver("toggle_follow_b2a", pre.props.live_follow_a2b) =>
          LET q == QualifyingRows(props, host, "B2A")
          IN  /\ FollowCount(host, ArmB) = 0
              /\ FollowCount(host, ArmA) = Cardinality({props.bone_map[i].original_name : i \in q})
              /\ \A i \in q : LastFor(props, q, i, "B2A") =>
                    Follows(host, ArmA, props.bone_map[i].original_name,
                            ArmB, props.bone_map[i].target_name)

\* Source->Target enabled over an active Target->Source that had two constraints on
\* the Source: none is left there, the Target carries two
C6_Witness ==
    /\ EnabledOver("toggle_follow_a2b", pre.props.live_follow_b2a)
    /\ props.live_follow_a2b /\ ~props.live_follow_b2a
    /\ FollowCount(pre.host, ArmA) = 2
    /\ FollowCount(host, ArmA) = 0
    /\ FollowCount(host, ArmB) = 2
    /\ Follows(host, ArmB, nB, ArmA, nA)

(* C19: in every state reached by toggling Source->Target, toggling        *)
(* Target->Source and clearing follow in any order, live_follow_a2b and    *)
(* live_follow_b2a are not both true.                                      *)
C19_AtMostOneDirection == ~(props.live_follow_a2b /\ props.live_follow_b2a)

\* Source->Target has been switched on while Target->Source was on
C19_Witness ==
    /\ pc = "followed"
    /\ last.op = "toggle_follow_a2b"
    /\ pre.props.live_follow_b2a /\ ~pre.props.live_follow_a2b
    /\ props.live_follow_a2b /\ ~props.live_follow_b2a

\* the last command switched an active direction off or cleared follow
FollowDisabled ==
    /\ pc = "followed"
    /\ \/ last.op = "toggle_follow_a2b" /\ pre.props.live_follow_a2b
       \/ last.op = "toggle_follow_b2a" /\ pre.props.live_follow_b2a
       \/ last.op = "clear_follow"

(* C20: after an active direction is toggled off, or after 'clear follow', *)
(* no bone of the Source or of the Target carries a constraint whose name  *)
(* starts with the reserved prefix, and the removed count reported is the  *)
(* number of such constraints on the two armatures before the command.     *)
C20_DisableRemovesEverything ==
    FollowDisabled =>
        /\ FollowCount(host, ArmA) = 0
        /\ FollowCount(host, ArmB) = 0
        /\ last.out = FollowCount(pre.host, ArmA) + FollowCount(pre.host, ArmB)

\* Target->Source, active with two constraints on the Source, has been toggled off
C20_Witness ==
    /\ FollowDisabled
    /\ last.op = "toggle_follow_b2a"
    /\ FollowCount(pre.host, ArmA) = 2
    /\ FollowCount(host, ArmA) = 0 /\ FollowCount(host, ArmB) = 0
    /\ last.out = 2
    /\ ~props.live_follow_b2a

----------------------------------------------------------------------------
(* Row selection and Capture                                                *)

\* get_active_bone_name(arm_obj); Empty is None
get_active_bone_name(h, arm_obj) ==
    IF ~IsArmature(arm_obj) THEN Empty
    ELSE IF h.bones_active[arm_obj] # 0 THEN h.bones[arm_obj][h.bones_active[arm_obj]].name
    ELSE LET sel == {i \in 1..Len(h.bones[arm_obj]) : h.bones[arm_obj][i].select}
         IN  IF sel = {} THEN Empty
             ELSE h.bones[arm_obj][CHOOSE i \in sel : \A j \in sel : i <= j].name

\* _select_pose_bone(arm, name) -> [h, ok]
_select_pose_bone(h, arm, name) ==
    IF ~IsArmature(arm) \/ ~Truthy(name) \/ ~_bone_exists(h, arm, name)
    THEN [h |-> h, ok |-> FALSE]
    ELSE LET h1 == _ensure_mode(_ensure_active(h, arm), arm, "POSE")
         IN  [h |-> [h1 EXCEPT
                       !.bones[arm] = [i \in 1..Len(@) |->
                                          [@[i] EXCEPT !.select = (h1.bones[arm][i].name = name)]],
                       !.bones_active[arm] = BoneIdx(h1.bones[arm], name)],
              ok |-> TRUE]

\* for name in names: if _select_pose_bone(arm, name): break
RECURSIVE SelectFirst(_, _, _)
SelectFirst(h, arm, names) ==
    IF names = <<>> THEN h
    ELSE IF _select_pose_bone(h, arm, Head(names)).ok
         THEN _select_pose_bone(h, arm, Head(names)).h
         ELSE SelectFirst(h, arm, Tail(names))

SelectOnSource(p, h, it) ==
    IF p.source_armature # None
    THEN SelectFirst(h, p.source_armature, <<it.original_name, it.current_name, it.target_name>>)
    ELSE h

SelectOnTarget(p, h, it) ==
    IF p.target_armature # None
    THEN SelectFirst(h, p.target_armature, <<it.target_name, it.current_name, it.original_name>>)
    ELSE h

\* _select_for_index(context, idx)
_select_for_index(p, h, idx) ==
    IF ~p.follow_list_selection THEN h
    ELSE IF 0 <= idx /\ idx < Len(p.bone_map)
         THEN SelectOnTarget(p, SelectOnSource(p, h, p.bone_map[idx + 1]), p.bone_map[idx + 1])
         ELSE h

\* props.active_index = idx, with its update callback _on_active_index_changed
SetActiveIndex(p, h, idx) ==
    [p |-> [p EXCEPT !.active_index = idx],
     h |-> _select_for_index([p EXCEPT !.active_index = idx], h, idx)]

\* a lookup that never finds a row
NoRowOf(p, a_name) == 0

\* the index of the first row whose original_name is a_name, 0 when there is none
FirstRowOf(p, a_name) ==
    LET hits == {i \in Rows(p) : p.bone_map[i].original_name = a_name}
    IN  IF hits = {} THEN 0 ELSE CHOOSE i \in hits : \A j \in hits : i <= j

\* a Capture that writes the pair into the active row
CaptureNamesActiveRow(p, h, a_name, b_name) ==
    LET cur == IF p.current_armature_side = "TARGET" THEN b_name ELSE a_name
        i == IF p.active_index + 1 \in 1..Len(p.bone_map) THEN p.active_index + 1 ELSE 0
        captured == [original_name |-> a_name, current_name |-> cur, target_name |-> b_name,
                     cap_src |-> a_name, cap_tgt |-> b_name, mark |-> FALSE]
        p1 == IF i # 0
              THEN [p EXCEPT !.bone_map[i] = [captured EXCEPT !.mark = p.bone_map[i].mark]]
              ELSE [p EXCEPT !.bone_map = Append(@, captured)]
        r == SetActiveIndex(p1, h, IF i # 0 THEN i - 1 ELSE Len(p1.bone_map) - 1)
    IN  [p |-> r.p, h |-> _mark_mapped_green(r.p, r.h), result |-> "FINISHED"]

\* a Capture whose Current is the Target bone whatever side the column reflects
CaptureNamesTargetSide(p, h, a_name, b_name) ==
    LET i == FirstRowOf(p, a_name)
        captured == [original_name |-> a_name, current_name |-> b_name, target_name |-> b_name,
                     cap_src |-> a_name, cap_tgt |-> b_name, mark |-> FALSE]
        p1 == IF i # 0
              THEN [p EXCEPT !.bone_map[i] = [captured EXCEPT !.mark = p.bone_map[i].mark]]
              ELSE [p EXCEPT !.bone_map = Append(@, captured)]
        r == SetActiveIndex(p1, h, IF i # 0 THEN i - 1 ELSE Len(p1.bone_map) - 1)
    IN  [p |-> r.p, h |-> _mark_mapped_green(r.p, r.h), result |-> "FINISHED"]

\* AJ_OT_capture_pair.execute from `existing_index = None` on
CaptureNames(p, h, a_name, b_name) ==
    LET cur == IF p.current_armature_side = "TARGET" THEN b_name ELSE a_name
        i == FirstRowOf(p, a_name)
        captured == [original_name |-> a_name, current_name |-> cur, target_name |-> b_name,
                     cap_src |-> a_name, cap_tgt |-> b_name, mark |-> FALSE]
        p1 == IF i # 0
              THEN [p EXCEPT !.bone_map[i] = [captured EXCEPT !.mark = p.bone_map[i].mark]]
              ELSE [p EXCEPT !.bone_map = Append(@, captured)]
        r == SetActiveIndex(p1, h, IF i # 0 THEN i - 1 ELSE Len(p1.bone_map) - 1)
    IN  [p |-> r.p, h |-> _mark_mapped_green(r.p, r.h), result |-> "FINISHED"]

CaptureInPose(p, h) ==
    IF ~Truthy(get_active_bone_name(h, p.source_armature))
       \/ ~Truthy(get_active_bone_name(h, p.target_armature))
    THEN [p |-> p, h |-> h, result |-> "CANCELLED"]
    ELSE CaptureNames(p, h, get_active_bone_name(h, p.source_armature),
                      get_active_bone_name(h, p.target_armature))

\* AJ_OT_capture_pair.execute -> [p, h, result]
capture_pair(p, h) ==
    IF ~(IsArmature(p.source_armature) /\ IsArmature(p.target_armature))
    THEN [p |-> p, h |-> h, result |-> "CANCELLED"]
    ELSE CaptureInPose(p,
            _ensure_mode(_ensure_active(
                _ensure_mode(_ensure_active(h, p.source_armature), p.source_armature, "POSE"),
                p.target_armature), p.target_armature, "POSE"))

----------------------------------------------------------------------------
(* Save and Load of the mapping file                                        *)

TXT == ".txt"

\* bpy.path.ensure_ext(path, ".txt")
ensure_ext(path) == IF path # <<>> /\ Last(path) = TXT THEN path ELSE path \o <<TXT>>

\* a Save that writes the Current column instead of the Rename column
SaveMappingCurrent(p) ==
    MappingRaw([i \in Rows(p) |-> [p.bone_map[i] EXCEPT !.target_name = p.bone_map[i].current_name]],
               1, <<>>)

\* the dict the loop of AJ_OT_bone_map_save_dialog.execute fills
SaveMapping(p) == MappingRaw(p.bone_map, 1, <<>>)

\* the same loop's it.cap_src = src; it.cap_tgt = tgt
SaveCaptures(p) ==
    [p EXCEPT !.bone_map = [i \in Rows(p) |->
        IF Truthy(p.bone_map[i].original_name) /\ Truthy(p.bone_map[i].target_name)
        THEN [p.bone_map[i] EXCEPT !.cap_src = p.bone_map[i].original_name,
                                   !.cap_tgt = p.bone_map[i].target_name]
        ELSE p.bone_map[i]]]

\* AJ_OT_bone_map_save_dialog.execute -> [p, d, result]; `io` is what the file system
\* does: "ok", "open_fails" (nothing written) or "write_fails" (the file left empty)
bone_map_save(p, d, filepath, io) ==
    LET path == ensure_ext(filepath)
    IN  IF io = "open_fails" THEN [p |-> SaveCaptures(p), d |-> d, result |-> "CANCELLED"]
        ELSE IF io = "write_fails"
        THEN [p |-> SaveCaptures(p), d |-> [d EXCEPT ![path] = [exists |-> TRUE, text |-> <<>>]],
              result |-> "CANCELLED"]
        ELSE [p |-> [SaveCaptures(p) EXCEPT !.mapping_path = path],
              d |-> [d EXCEPT ![path] = [exists |-> TRUE, text |-> mapping_to_txt(SaveMapping(p))]],
              result |-> "FINISHED"]

\* a prefill that also overwrites a populated Current
_prefill_current_overwriting(p, h, only_if_blank) ==
    IF ~IsArmature(CurrentArm(p)) THEN p
    ELSE [p EXCEPT !.bone_map = [i \in Rows(p) |->
            IF _bone_exists(h, CurrentArm(p), p.bone_map[i].original_name)
            THEN [p.bone_map[i] EXCEPT !.current_name = p.bone_map[i].original_name]
            ELSE IF _bone_exists(h, CurrentArm(p), p.bone_map[i].target_name)
            THEN [p.bone_map[i] EXCEPT !.current_name = p.bone_map[i].target_name]
            ELSE p.bone_map[i]]]

\* _prefill_current_from_arm(props, only_if_blank)
_prefill_current_from_arm(p, h, only_if_blank) ==
    IF ~IsArmature(CurrentArm(p)) THEN p
    ELSE [p EXCEPT !.bone_map = [i \in Rows(p) |->
            IF only_if_blank /\ Truthy(p.bone_map[i].current_name) THEN p.bone_map[i]
            ELSE IF _bone_exists(h, CurrentArm(p), p.bone_map[i].original_name)
            THEN [p.bone_map[i] EXCEPT !.current_name = p.bone_map[i].original_name]
            ELSE IF _bone_exists(h, CurrentArm(p), p.bone_map[i].target_name)
            THEN [p.bone_map[i] EXCEPT !.current_name = p.bone_map[i].target_name]
            ELSE p.bone_map[i]]]

\* new or old
OrElse(new, old) == IF Truthy(new) THEN new ELSE old

\* existing_index = {it.original_name: i for i, it in enumerate(props.bone_map)}:
\* the index (from 1) the dict holds for `old`, 0 when `old` is not a key
existing_index(rows, old) ==
    LET hits == {i \in 1..Len(rows) : rows[i].original_name = old}
    IN  IF hits = {} THEN 0 ELSE CHOOSE i \in hits : \A j \in hits : j <= i

\* a merge that appends a row for every entry
LoadEntryAppend(rows, idx, old, new) ==
    Append(rows, [original_name |-> old, current_name |-> Empty, target_name |-> OrElse(new, old),
                  cap_src |-> old, cap_tgt |-> OrElse(new, old), mark |-> FALSE])

\* one pass of `for old, new in mapping.items()`, idx being existing_index.get(old)
LoadEntry(rows, idx, old, new) ==
    IF idx # 0
    THEN [rows EXCEPT ![idx].target_name = OrElse(new, old),
                      ![idx].cap_src = old, ![idx].cap_tgt = OrElse(new, old)]
    ELSE Append(rows, [original_name |-> old, current_name |-> Empty,
                       target_name |-> OrElse(new, old),
                       cap_src |-> old, cap_tgt |-> OrElse(new, old), mark |-> FALSE])

RECURSIVE LoadMerge(_, _, _)
LoadMerge(rows0, rows, mapping) ==
    IF mapping = <<>> THEN rows
    ELSE LoadMerge(rows0,
                   LoadEntry(rows, existing_index(rows0, Head(mapping)[1]),
                             Head(mapping)[1], Head(mapping)[2]),
                   Tail(mapping))

\* AJ_OT_bone_map_load_dialog.execute from `filled = ...` on
LoadEnd(r) ==
    LET p1 == _prefill_current_from_arm(r.p, r.h, TRUE)
    IN  [p |-> p1, h |-> _mark_mapped_green(p1, r.h), result |-> "FINISHED"]

\* ... from `props.mapping_path = ...` on
LoadMerged(p, h, path) ==
    LoadEnd(IF Len(p.bone_map) # 0 /\ p.active_index >= Len(p.bone_map)
            THEN SetActiveIndex([p EXCEPT !.mapping_path = ensure_ext(path)], h, Len(p.bone_map) - 1)
            ELSE [p |-> [p EXCEPT !.mapping_path = ensure_ext(path)], h |-> h])

\* a Load that stores the chosen path before it reads the file
bone_map_load_path_first(p, h, d, filepath) ==
    IF ~Truthy(filepath) THEN [p |-> p, h |-> h, result |-> "CANCELLED"]
    ELSE IF filepath \notin DOMAIN d \/ ~d[filepath].exists
    THEN [p |-> [p EXCEPT !.mapping_path = ensure_ext(filepath)], h |-> h, result |-> "CANCELLED"]
    ELSE LoadMerged([p EXCEPT !.bone_map =
                        LoadMerge(p.bone_map, p.bone_map, parse_mapping_txt(d[filepath].text))],
                    h, filepath)

\* AJ_OT_bone_map_load_dialog.execute -> [p, h, result]
bone_map_load(p, h, d, filepath) ==
    IF ~Truthy(filepath) THEN [p |-> p, h |-> h, result |-> "CANCELLED"]
    ELSE IF filepath \notin DOMAIN d \/ ~d[filepath].exists
    THEN [p |-> p, h |-> h, result |-> "CANCELLED"]
    ELSE LoadMerged([p EXCEPT !.bone_map =
                        LoadMerge(p.bone_map, p.bone_map, parse_mapping_txt(d[filepath].text))],
                    h, filepath)

----------------------------------------------------------------------------
(* SpecFile: a table of one or two rows, Save, a new scene, Load            *)

FileOriginals == {nA, nD, <<HASH, "A">>, <<"A", EQ, "B">>, <<"A", SP>>}
FileRenames == {nA, nB, Empty, <<"B", EQ>>, <<SP, "B">>, <<"B", NL, "C">>}

FreeRows == {Row(o, o, t) : o \in FileOriginals, t \in FileRenames}
PoolRows == {Row(nA, nA, nB), Row(nB, nB, nB), Row(nC, Empty, Empty)}

FileTables == {<<r>> : r \in FreeRows} \cup {<<r, q>> : r \in FreeRows, q \in PoolRows}

\* a mapping file written earlier: A=D, C= and D=B
OldFile == [exists |-> TRUE,
            text |-> JoinLines(<< <<"A", EQ, "D">>, <<"C", EQ>>, <<"D", EQ, "B">> >>)]

InitFile ==
    /\ \E t \in FileTables :
          props = [PropsDefault EXCEPT !.source_armature = ArmA, !.target_armature = ArmB,
                                       !.bone_map = t]
    /\ host = HostBase
    /\ disk \in {DiskEmpty, [DiskEmpty EXCEPT ![PathMapTxt] = OldFile]}
    /\ pc = "ready"
    /\ pre = [props |-> props, host |-> host]
    /\ last = NoCall
    /\ args = NoArgs

DoSave ==
    /\ pc = "ready"
    /\ \E filepath \in Paths, io \in {"ok", "open_fails", "write_fails"} :
          LET r == bone_map_save(props, disk, filepath, io)
          IN  /\ props' = r.p
              /\ disk' = r.d
              /\ last' = [op |-> "bone_map_save", result |-> r.result, out |-> filepath]
              /\ pc' = IF r.result = "FINISHED" THEN "saved" ELSE "save_failed"
    /\ pre' = [props |-> props, host |-> host]
    /\ args' = [mapping |-> MappingRaw(props.bone_map, 1, <<>>), pending |-> {}]
    /\ UNCHANGED host

\* the user opens a new scene: its aj_props are the registered defaults
DoNewScene ==
    /\ pc = "saved"
    /\ props' = PropsDefault
    /\ pc' = "new"
    /\ pre' = [props |-> props, host |-> host]
    /\ last' = NoCall
    /\ UNCHANGED <<host, disk, args>>

DoLoad ==
    /\ pc \in {"ready", "new"}
    /\ \E filepath \in Paths \cup {Empty} :
          LET r == bone_map_load(props, host, disk, filepath)
          IN  /\ props' = r.p
              /\ host' = r.h
              /\ last' = [op |-> "bone_map_load", result |-> r.result, out |-> filepath]
              /\ pc' = IF r.result # "FINISHED" THEN "load_failed"
                       ELSE IF pc = "new" THEN "reloaded" ELSE "loaded"
    /\ pre' = [props |-> props, host |-> host]
    /\ UNCHANGED <<disk, args>>

NextFile == DoSave \/ DoNewScene \/ DoLoad

SpecFile == InitFile /\ [][NextFile]_vars

\* the mapping the last Load read
LoadedMapping == parse_mapping_txt(disk[last.out].text)

Merged == pc \in {"loaded", "reloaded"} /\ last.op = "bone_map_load" /\ last.result = "FINISHED"

NewKeys(rows, m) == {k \in DictKeys(m) : \A i \in 1..Len(rows) : rows[i].original_name # k}

\* no row removed, no original_name changed, one row appended per new key
MergeKeepsRows(t0, t1, m) ==
    /\ Len(t1) = Len(t0) + Cardinality(NewKeys(t0, m))
    /\ \A i \in 1..Len(t0) : t1[i].original_name = t0[i].original_name
    /\ \A k \in NewKeys(t0, m) :
          Cardinality({i \in (Len(t0) + 1)..Len(t1) : t1[i].original_name = k}) = 1

RowPairs(rows) == {<<rows[i].original_name, rows[i].target_name>> : i \in 1..Len(rows)}

Reloaded == pc = "reloaded" /\ last.result = "FINISHED"

(* C9 (as stated): Save followed by Load of the same file into an empty    *)
(* table yields exactly one row per saved (original_name, target_name)     *)
(* pair, with those names, and no other rows.                              *)
C9_SaveLoadStated ==
    Reloaded =>
        /\ Len(props.bone_map) = Len(args.mapping)
        /\ RowPairs(props.bone_map) = SeqToSet(args.mapping)

(* C9 (amended): the same for a table in which no saved name starts or     *)
(* ends with whitespace, no original_name holds "=" or starts with "#",    *)
(* and no name holds a line break.                                         *)
C9_SaveLoad ==
    (Reloaded /\ RoundTripAmended(args.mapping)) =>
        /\ Len(props.bone_map) = Len(args.mapping)
        /\ RowPairs(props.bone_map) = SeqToSet(args.mapping)

\* two pairs saved, the scene replaced, the file loaded: two rows with the saved names
C9_Witness ==
    /\ Reloaded
    /\ RoundTripAmended(args.mapping)
    /\ args.mapping = << <<nD, <<"B", EQ>> >>, <<nA, nB>> >>
    /\ Len(props.bone_map) = 2
    /\ props.bone_map[1].original_name = nD /\ props.bone_map[1].target_name = <<"B", EQ>>
    /\ props.bone_map[2].original_name = nA /\ props.bone_map[2].target_name = nB

(* C11: when no file is chosen or the mapping file cannot be read, Load is *)
(* cancelled and the rows of the table, their count, the active index and  *)
(* the stored mapping path are what they were before the command.          *)
C11_LoadFailureLeavesTable ==
    (last.op = "bone_map_load" /\ last.result = "CANCELLED") =>
        /\ props.bone_map = pre.props.bone_map
        /\ props.active_index = pre.props.active_index
        /\ props.mapping_path = pre.props.mapping_path
        /\ props = pre.props

\* a Load of a file that does not exist, on a table of two rows
C11_Witness ==
    /\ last.op = "bone_map_load" /\ last.result = "CANCELLED"
    /\ last.out = PathMapTxt
    /\ ~disk[PathMapTxt].exists
    /\ Len(props.bone_map) = 2

----------------------------------------------------------------------------
(* SpecPre: Capture, Apply and the export commands invoked on a scene whose *)
(* armature selection, active bones and table may not meet their           *)
(* preconditions                                                           *)

PreTables == {<<>>, SeededTable(<<nA, nB, nC>>), SeededTable(<<nA, nD, nC>>)}

InitPre ==
    /\ \E src \in {None, Mesh1, ArmA}, tgt \in {None, Mesh2, ArmB}, t \in PreTables,
          side \in {"SOURCE", "TARGET"}, act \in [Armatures -> 0..1],
          obj \in {None, ArmA}, m \in {"OBJECT", "POSE"} :
          /\ props = [PropsDefault EXCEPT !.source_armature = src, !.target_armature = tgt,
                                          !.bone_map = t, !.export_side = side,
                                          !.current_armature_side = side]
          /\ host = [SceneFor(ArmB, Mesh1, <<nA, nB, nC>>, TRUE) EXCEPT
                        !.bones_active = act, !.active_object = obj,
                        !.mode = [a \in Armatures |-> IF a = ArmA THEN m ELSE "OBJECT"]]
    /\ disk = DiskEmpty
    /\ pc = "ready"
    /\ pre = [props |-> props, host |-> host]
    /\ last = NoCall
    /\ args = NoArgs

DoCommand(op, r) ==
    /\ pc = "ready"
    /\ props' = r.p
    /\ host' = r.h
    /\ pre' = [props |-> props, host |-> host]
    /\ last' = [op |-> op, result |-> r.result, out |-> <<>>]
    /\ pc' = "done"
    /\ UNCHANGED <<disk, args>>

DoCapture == DoCommand("capture_pair", capture_pair(props, host))

DoApplyToSource == DoCommand("apply_to_source", apply_to_source(props, host))

DoApplyToTarget == DoCommand("apply_to_target", apply_to_target(props, host))

DoExportCommand ==
    \E outs \in [1..1 -> Outcomes] :
        \/ LET r == export_current_action(props, host, outs)
           IN  DoCommand("export_current_action", [p |-> r.p, h |-> r.h, result |-> r.result])
        \/ LET r == export_all_actions(props, host, outs)
           IN  DoCommand("export_all_actions", [p |-> r.p, h |-> r.h, result |-> r.result])
        \/ LET r == export_fbx_all_actions_onefile(props, host, outs)
           IN  DoCommand("export_fbx_all_actions_onefile",
                         [p |-> r.p, h |-> r.h, result |-> r.result])

NextPre == DoCapture \/ DoApplyToSource \/ DoApplyToTarget \/ DoExportCommand

SpecPre == InitPre /\ [][NextPre]_vars

\* the precondition of the last command did not hold in the state it was invoked in
CaptureUnmet(p, h) ==
    \/ ~(IsArmature(p.source_armature) /\ IsArmature(p.target_armature))
    \/ ~Truthy(get_active_bone_name(h, p.source_armature))
    \/ ~Truthy(get_active_bone_name(h, p.target_armature))

ApplyUnmet(p, h, arm) == ~IsArmature(arm) \/ ApplyMapping(p, h, arm) = <<>>

PreconditionUnmet ==
    \/ last.op = "capture_pair" /\ CaptureUnmet(pre.props, pre.host)
    \/ last.op = "apply_to_source" /\ ApplyUnmet(pre.props, pre.host, pre.props.source_armature)
    \/ last.op = "apply_to_target" /\ ApplyUnmet(pre.props, pre.host, pre.props.target_armature)
    \/ /\ last.op \in {"export_current_action", "export_all_actions",
                       "export_fbx_all_actions_onefile"}
       /\ ~IsArmature(ExportArm(pre.props))

(* C10: when Capture is invoked with a missing or invalid armature or with *)
(* no active bone on one side, when Apply is invoked with an invalid       *)
(* armature or an empty applicable mapping, or when an export command is   *)
(* invoked with an absent or non-armature target, the command is cancelled *)
(* and no state is changed: not the table, bone names, references, the     *)
(* active object or the armatures' interaction mode.                       *)
C10_PreconditionErrorsMutateNothing ==
    (pc = "done" /\ PreconditionUnmet) =>
        /\ last.result = "CANCELLED"
        /\ props = pre.props
        /\ host = pre.host

----------------------------------------------------------------------------
(* SpecApply: Apply to Source or to Target on a table of two rows whose    *)
(* Original names may repeat or name no bone, with the Current column      *)
(* reflecting either side                                                  *)

ApplyOriginals == {nA, nB, nD}
ApplyRenames == {nA, nB, nC, Empty}

\* a row as _populate_bone_map_from or Load leaves it: Current is the bone's name or blank
ApplyRow(o, t) == Row(o, IF o = nD THEN Empty ELSE o, t)

ApplyTables == {<<ApplyRow(o1, t1), ApplyRow(o2, t2)>> :
                    o1 \in ApplyOriginals, t1 \in ApplyRenames,
                    o2 \in ApplyOriginals, t2 \in ApplyRenames}

InitApply ==
    /\ \E t \in ApplyTables, side \in {"SOURCE", "TARGET"} :
          props = [PropsDefault EXCEPT !.source_armature = ArmA, !.target_armature = ArmB,
                                       !.current_armature_side = side, !.bone_map = t]
    /\ host = SceneFor(ArmB, Mesh1, <<nA, nB, nC>>, TRUE)
    /\ disk = DiskEmpty
    /\ pc = "ready"
    /\ pre = [props |-> props, host |-> host]
    /\ last = NoCall
    /\ args = NoArgs

DoApplyOn(op, r, arm) ==
    /\ pc = "ready"
    /\ props' = r.p
    /\ host' = r.h
    /\ pre' = [props |-> props, host |-> host]
    /\ last' = [op |-> op, result |-> r.result, out |-> arm]
    /\ args' = [mapping |-> ApplyMapping(props, host, arm), pending |-> {}]
    /\ pc' = "done"
    /\ UNCHANGED disk

DoApplySourceAnySide ==
    DoApplyOn("apply_to_source", apply_to_source(props, host), props.source_armature)

DoApplyTargetAnySide ==
    DoApplyOn("apply_to_target", apply_to_target(props, host), props.target_armature)

NextApply == DoApplySourceAnySide \/ DoApplyTargetAnySide

SpecApply == InitApply /\ [][NextApply]_vars

Applied == pc = "done" /\ last.result = "FINISHED"

\* the armature of the last Apply is the one the Current column reflects
AppliedOnCurrentSide ==
    \/ last.op = "apply_to_source" /\ pre.props.current_armature_side = "SOURCE"
    \/ last.op = "apply_to_target" /\ pre.props.current_armature_side = "TARGET"

\* rows whose original_name is no bone of the armature are as they were
SkippedRowsUnchanged ==
    /\ Len(props.bone_map) = Len(pre.props.bone_map)
    /\ \A i \in Rows(props) :
          ~_bone_exists(pre.host, last.out, pre.props.bone_map[i].original_name)
              => props.bone_map[i] = pre.props.bone_map[i]

----------------------------------------------------------------------------
(* SpecSteps: the pipelines that rename bones, one call at a time.  pc is   *)
(* the handler's position, args.pending the calls it has still to make and *)
(* last.out the calls it has made.                                         *)

Call(fn, arm, mapping) == [fn |-> fn, arm |-> arm, mapping |-> mapping]

Patchers == {"patch_vertex_groups_for_armature", "patch_constraints_subtargets",
             "patch_fcurves_actions", "patch_driver_fcurves"}

\* a pipeline that patches the vertex groups before it renames the bones
PipelineCallsPatchFirst(arm, mapping) ==
    <<Call("patch_vertex_groups_for_armature", arm, mapping),
      Call("rename_bones_edit_mode_preserve_flags", arm, mapping),
      Call("patch_constraints_subtargets", arm, mapping),
      Call("patch_fcurves_actions", arm, mapping),
      Call("patch_driver_fcurves", arm, mapping),
      Call("force_refresh_depsgraph", arm, <<>>)>>

\* the six calls of _apply_mapping_on_arm, AJ_OT_revert_row, AJ_OT_revert_marked,
\* _apply_temp_mapping_if_needed and _revert_temp_mapping, in the order of the code
PipelineCalls(arm, mapping) ==
    <<Call("rename_bones_edit_mode_preserve_flags", arm, mapping),
      Call("patch_vertex_groups_for_armature", arm, mapping),
      Call("patch_constraints_subtargets", arm, mapping),
      Call("patch_fcurves_actions", arm, mapping),
      Call("patch_driver_fcurves", arm, mapping),
      Call("force_refresh_depsgraph", arm, <<>>)>>

\* the scene after the call c
CallHost(h, c) ==
    CASE c.fn = "rename_bones_edit_mode_preserve_flags" ->
            rename_bones_edit_mode_preserve_flags(h, c.arm, c.mapping).h
      [] c.fn = "patch_vertex_groups_for_armature" ->
            patch_vertex_groups_for_armature(h, c.arm, c.mapping)
      [] c.fn = "patch_constraints_subtargets" ->
            patch_constraints_subtargets(h, c.arm, c.mapping)
      [] c.fn = "patch_fcurves_actions" -> patch_fcurves_actions(h, c.mapping)
      [] c.fn = "patch_driver_fcurves" -> patch_driver_fcurves(h, c.mapping)
      [] c.fn = "force_refresh_depsgraph" -> force_refresh_depsgraph(h, c.arm)

\* what the handler `op` does to the table after its pipeline
PipelineTail(op, p, mapping) ==
    IF \/ op = "apply_to_source" /\ p.current_armature_side = "SOURCE"
       \/ op = "apply_to_target" /\ p.current_armature_side = "TARGET"
    THEN SetCurrentFromMapping(p, mapping)
    ELSE IF op = "revert_marked"
    THEN [p EXCEPT !.bone_map = [i \in Rows(p) |->
            IF p.bone_map[i].mark /\ p.bone_map[i].current_name # p.bone_map[i].original_name
            THEN [p.bone_map[i] EXCEPT !.current_name = p.bone_map[i].original_name]
            ELSE p.bone_map[i]]]
    ELSE p

StepTables == {SeededTable(t) : t \in ExportTables}

InitSteps ==
    /\ \E t \in StepTables, side \in {"SOURCE", "TARGET"} :
          /\ props = [PropsDefault EXCEPT
                        !.source_armature = ArmA, !.target_armature = ArmB,
                        !.current_armature_side = side,
                        !.export_side = side,
                        !.bone_map = [i \in 1..Len(t) |-> [t[i] EXCEPT !.mark = TRUE]]]
          /\ host = IF side = "TARGET" THEN SceneFor(ArmB, Mesh1, <<nA, nB, nC>>, TRUE)
                                       ELSE SceneFor(ArmA, Mesh2, <<nA, nB, nC>>, TRUE)
    /\ disk = DiskEmpty
    /\ pc = "ready"
    /\ pre = [props |-> props, host |-> host]
    /\ last = NoCall
    /\ args = NoArgs

\* the handler `op` reaches its pipeline with the table p1, the armature arm and `mapping`
StartPipeline(op, idx, p1, arm, mapping) ==
    /\ props' = p1
    /\ pre' = [props |-> props, host |-> host]
    /\ last' = [op |-> op, result |-> "RUNNING", out |-> <<>>, idx |-> idx]
    /\ args' = [mapping |-> mapping, pending |-> PipelineCalls(arm, mapping)]
    /\ pc' = "running"
    /\ UNCHANGED <<host, disk>>

StartApplyToSource ==
    /\ pc = "ready"
    /\ IsArmature(props.source_armature)
    /\ ApplyMapping(props, host, props.source_armature) # <<>>
    /\ StartPipeline("apply_to_source", 0 - 1, props, props.source_armature,
                     ApplyMapping(props, host, props.source_armature))

StartApplyToTarget ==
    /\ pc = "ready"
    /\ IsArmature(props.target_armature)
    /\ ApplyMapping(props, host, props.target_armature) # <<>>
    /\ StartPipeline("apply_to_target", 0 - 1, props, props.target_armature,
                     ApplyMapping(props, host, props.target_armature))

Returned(ops) == pc = "returned" /\ last.op \in ops

Reverts == {"revert_row", "revert_marked"}

StartRevertRow ==
    /\ Returned({"apply_to_source", "apply_to_target"} \cup Reverts)
    /\ \E idx \in 0..(Len(props.bone_map) - 1) :
          LET it == props.bone_map[idx + 1]
          IN  /\ IsArmature(CurrentArm(props))
              /\ Truthy(it.current_name) /\ Truthy(it.original_name)
              /\ it.current_name # it.original_name
              /\ _bone_exists(host, CurrentArm(props), it.current_name)
              /\ StartPipeline("revert_row", idx,
                               [props EXCEPT !.bone_map[idx + 1].current_name = it.original_name],
                               CurrentArm(props), << <<it.current_name, it.original_name>> >>)

StartRevertMarked ==
    /\ Returned({"apply_to_source", "apply_to_target"} \cup Reverts)
    /\ CurrentArm(props) # None
    /\ RevertMapping(props, host, 1, <<>>) # <<>>
    /\ StartPipeline("revert_marked", 0 - 1, props, CurrentArm(props),
                     RevertMapping(props, host, 1, <<>>))

StartTempRename ==
    /\ pc = "ready"
    /\ IsArmature(ExportArm(props))
    /\ props.rename_on_export
    /\ ApplyMapping(props, host, ExportArm(props)) # <<>>
    /\ StartPipeline("_apply_temp_mapping_if_needed", 0 - 1, props, ExportArm(props),
                     ApplyMapping(props, host, ExportArm(props)))

StartTempRevert ==
    /\ Returned({"_apply_temp_mapping_if_needed"})
    /\ InverseMapping(args.mapping, <<>>) # <<>>
    /\ StartPipeline("_revert_temp_mapping", 0 - 1, props, ExportArm(props),
                     InverseMapping(args.mapping, <<>>))

\* the handler makes its next call; after the last one it finishes its work on the table
StepCall ==
    /\ pc = "running"
    /\ args.pending # <<>>
    /\ last' = [last EXCEPT !.out = Append(@, Head(args.pending)),
                            !.result = IF Len(args.pending) = 1 THEN "FINISHED" ELSE @]
    /\ args' = [args EXCEPT !.pending = Tail(@)]
    /\ IF Len(args.pending) = 1
       THEN /\ props' = PipelineTail(last.op, props, args.mapping)
            /\ host' = IF last.op \in {"apply_to_source", "apply_to_target"}
                       THEN _mark_mapped_green(PipelineTail(last.op, props, args.mapping),
                                               CallHost(host, Head(args.pending)))
                       ELSE CallHost(host, Head(args.pending))
            /\ pc' = "returned"
       ELSE /\ host' = CallHost(host, Head(args.pending))
            /\ UNCHANGED <<props, pc>>
    /\ UNCHANGED <<disk, pre>>

NextSteps ==
    \/ StartApplyToSource \/ StartApplyToTarget \/ StartRevertRow \/ StartRevertMarked
    \/ StartTempRename \/ StartTempRevert \/ StepCall

SpecSteps == InitSteps /\ [][NextSteps]_vars

\* the positions in the log of the calls of the function fn
CallsOf(fn) == {k \in 1..Len(last.out) : last.out[k].fn = fn}

InPipeline == pc \in {"running", "returned"}

(* C15: in each of the six pipelines the rename is the first call, each of *)
(* the four reference patchers is called only after it and with the        *)
(* mapping the rename was given, and force_refresh_depsgraph is called      *)
(* once, after all four patchers, before the pipeline returns.             *)
C15_PipelineOrdering ==
    InPipeline =>
        /\ \A k \in 1..Len(last.out) :
              /\ last.out[k].fn \in Patchers =>
                    /\ \E j \in 1..(k - 1) :
                          /\ last.out[j].fn = "rename_bones_edit_mode_preserve_flags"
                          /\ last.out[j].mapping = last.out[k].mapping
                          /\ last.out[j].arm = last.out[k].arm
                    /\ last.out[k].mapping = args.mapping
              /\ last.out[k].fn = "rename_bones_edit_mode_preserve_flags" =>
                    /\ k = 1
                    /\ last.out[k].mapping = args.mapping
              /\ last.out[k].fn = "force_refresh_depsgraph" =>
                    \A f \in Patchers : \E j \in 1..(k - 1) : last.out[j].fn = f
        /\ pc = "returned" =>
              /\ Cardinality(CallsOf("rename_bones_edit_mode_preserve_flags")) = 1
              /\ \A f \in Patchers : Cardinality(CallsOf(f)) = 1
              /\ CallsOf("force_refresh_depsgraph") = {Len(last.out)}

\* the handlers, call by call, leave the table and the scene the operators leave
StepsAgreeWithOperators ==
    pc = "returned" =>
        LET r == CASE last.op = "apply_to_source" -> apply_to_source(pre.props, pre.host)
                   [] last.op = "apply_to_target" -> apply_to_target(pre.props, pre.host)
                   [] last.op = "revert_row" -> revert_row(pre.props, pre.host, last.idx)
                   [] last.op = "revert_marked" -> revert_marked(pre.props, pre.host)
                   [] last.op = "_apply_temp_mapping_if_needed" ->
                        [p |-> pre.props,
                         h |-> _apply_temp_mapping_if_needed(pre.props, pre.host,
                                                             ExportArm(pre.props)).h]
                   [] last.op = "_revert_temp_mapping" ->
                        [p |-> pre.props,
                         h |-> _revert_temp_mapping(pre.host, args.mapping,
                                                    ExportArm(pre.props))]
        IN  props = r.p /\ host = r.h

\* the temporary export rename of A -> B, B -> A has returned and its revert has made
\* all six calls with the inverse mapping
C15_Witness ==
    /\ pc = "returned"
    /\ last.op = "_revert_temp_mapping"
    /\ args.mapping = << <<nB, nA>>, <<nA, nB>> >>
    /\ Len(last.out) = 6
    /\ last.out[1].fn = "rename_bones_edit_mode_preserve_flags"
    /\ last.out[5].mapping = args.mapping
    /\ last.out[6].fn = "force_refresh_depsgraph"

----------------------------------------------------------------------------
(* SpecPatch: the rename and each of the four reference patchers called on *)
(* a skinned, constrained, animated and driven armature with any mapping   *)
(* of at most two entries                                                  *)

InitPatch ==
    /\ props = [PropsDefault EXCEPT !.source_armature = ArmA, !.target_armature = ArmB]
    /\ \E vgs \in VGChoices : host = SceneFor(ArmB, Mesh1, vgs, TRUE)
    /\ disk = DiskEmpty
    /\ pc = "ready"
    /\ pre = [props |-> props, host |-> host]
    /\ last = NoCall
    /\ args \in {[mapping |-> m, pending |-> {}] : m \in {x \in MappingInputs : Len(x) <= 2}}

CallFn(fn, h, out) ==
    /\ pc = "ready"
    /\ host' = h
    /\ last' = [op |-> fn, result |-> "RETURNED", out |-> out]
    /\ pc' = "done"
    /\ pre' = [props |-> props, host |-> host]
    /\ UNCHANGED <<props, disk, args>>

CallRenameFn ==
    LET r == rename_bones_edit_mode_preserve_flags(host, ArmB, args.mapping)
    IN  CallFn("rename_bones_edit_mode_preserve_flags", r.h, <<r.applied, r.restored>>)

CallPatchVertexGroups ==
    CallFn("patch_vertex_groups_for_armature",
           patch_vertex_groups_for_armature(host, ArmB, args.mapping), <<>>)

CallPatchConstraints ==
    CallFn("patch_constraints_subtargets",
           patch_constraints_subtargets(host, ArmB, args.mapping), <<>>)

CallPatchFcurves ==
    CallFn("patch_fcurves_actions", patch_fcurves_actions(host, args.mapping), <<>>)

CallPatchDrivers ==
    CallFn("patch_driver_fcurves", patch_driver_fcurves(host, args.mapping), <<>>)

NextPatch ==
    \/ CallRenameFn \/ CallPatchVertexGroups \/ CallPatchConstraints
    \/ CallPatchFcurves \/ CallPatchDrivers

SpecPatch == InitPatch /\ [][NextPatch]_vars

\* every old == new
IsIdentity(m) == \A k \in 1..Len(m) : m[k][1] = m[k][2]

(* C16: with a mapping in which every old == new, the rename reports zero   *)
(* renamed bones and changes no bone name or deform flag, and none of the  *)
(* four patchers changes a vertex-group name, a constraint subtarget, an   *)
(* animation-curve path or a driver path.                                  *)
C16_IdentityIsNoOp ==
    (pc = "done" /\ IsIdentity(args.mapping)) =>
        /\ last.op = "rename_bones_edit_mode_preserve_flags" => last.out[1] = 0
        /\ SceneRefs(host, ArmB) = SceneRefs(pre.host, ArmB)
        /\ SceneRefs(host, ArmA) = SceneRefs(pre.host, ArmA)

\* the rename called with A -> A, B -> B on bones A, B, C: nothing renamed
C16_Witness ==
    /\ pc = "done"
    /\ last.op = "rename_bones_edit_mode_preserve_flags"
    /\ args.mapping = << <<nA, nA>>, <<nB, nB>> >>
    /\ last.out[1] = 0
    /\ host.bones[ArmB][1].name = nA /\ host.bones[ArmB][2].name = nB

----------------------------------------------------------------------------
(* Seeding the table, Refresh Current and the auto-sync timer               *)

\* the rows _populate_bone_map_from adds: one per bone, every name the bone's
SeedRows(bs) ==
    [i \in 1..Len(bs) |->
        [original_name |-> bs[i].name, current_name |-> bs[i].name,
         target_name |-> bs[i].name, cap_src |-> bs[i].name, cap_tgt |-> bs[i].name,
         mark |-> FALSE]]

\* _populate_bone_map_from(props, arm) -> [p, h]
_populate_bone_map_from(p, h, arm) ==
    IF ~IsArmature(arm) THEN [p |-> [p EXCEPT !.bone_map = <<>>], h |-> h]
    ELSE SetActiveIndex([p EXCEPT !.bone_map = SeedRows(h.bones[arm])], h,
                        IF Len(h.bones[arm]) > 0 THEN 0 ELSE 0 - 1)

\* a callback that reseeds the table whether or not it has rows
_on_src_tgt_changed_reseeding(p, h) ==
    IF IsArmature(IF p.source_armature # None THEN p.source_armature ELSE p.target_armature)
    THEN _populate_bone_map_from(p, h, IF p.source_armature # None THEN p.source_armature
                                       ELSE p.target_armature)
    ELSE [p |-> p, h |-> h]

\* _on_src_tgt_changed(self, context) -> [p, h]
_on_src_tgt_changed(p, h) ==
    IF Len(p.bone_map) > 0 THEN [p |-> p, h |-> h]
    ELSE IF IsArmature(IF p.source_armature # None THEN p.source_armature
                       ELSE p.target_armature)
    THEN _populate_bone_map_from(p, h, IF p.source_armature # None THEN p.source_armature
                                       ELSE p.target_armature)
    ELSE [p |-> p, h |-> h]

\* the user picks obj as the Source: the property is set and its update callback runs
SetSourceArmature(p, h, obj) == _on_src_tgt_changed([p EXCEPT !.source_armature = obj], h)

\* the user picks obj as the Target
SetTargetArmature(p, h, obj) == _on_src_tgt_changed([p EXCEPT !.target_armature = obj], h)

\* a refresh that looks for the bone named target_name first
refresh_current_target_first(p, h) ==
    IF ~IsArmature(CurrentArm(p)) THEN [p |-> p, h |-> h, result |-> "CANCELLED"]
    ELSE [p |-> [p EXCEPT !.bone_map = [i \in Rows(p) |->
                    IF _bone_exists(h, CurrentArm(p), p.bone_map[i].target_name)
                    THEN [p.bone_map[i] EXCEPT !.current_name = p.bone_map[i].target_name]
                    ELSE IF _bone_exists(h, CurrentArm(p), p.bone_map[i].original_name)
                    THEN [p.bone_map[i] EXCEPT !.current_name = p.bone_map[i].original_name]
                    ELSE p.bone_map[i]]],
          h |-> h, result |-> "FINISHED"]

\* AJ_OT_refresh_current.execute -> [p, h, result]
refresh_current(p, h) ==
    IF ~IsArmature(CurrentArm(p)) THEN [p |-> p, h |-> h, result |-> "CANCELLED"]
    ELSE [p |-> [p EXCEPT !.bone_map = [i \in Rows(p) |->
                    IF _bone_exists(h, CurrentArm(p), p.bone_map[i].original_name)
                    THEN [p.bone_map[i] EXCEPT !.current_name = p.bone_map[i].original_name]
                    ELSE IF _bone_exists(h, CurrentArm(p), p.bone_map[i].target_name)
                    THEN [p.bone_map[i] EXCEPT !.current_name = p.bone_map[i].target_name]
                    ELSE p.bone_map[i]]],
          h |-> h, result |-> "FINISHED"]

\* a _find_row_for that looks at the Original column only
_find_row_for_original(p, name) ==
    LET hits == {i \in Rows(p) : name = p.bone_map[i].original_name}
    IN  IF ~Truthy(name) \/ hits = {} THEN 0 - 1
        ELSE (CHOOSE i \in hits : \A j \in hits : i <= j) - 1

\* AJ_OT_toggle_autosync._find_row_for(props, name): the row's index from 0, -1 is None
_find_row_for(p, name) ==
    LET hits == {i \in Rows(p) : name \in {p.bone_map[i].original_name,
                                           p.bone_map[i].current_name,
                                           p.bone_map[i].target_name}}
    IN  IF ~Truthy(name) \/ hits = {} THEN 0 - 1
        ELSE (CHOOSE i \in hits : \A j \in hits : i <= j) - 1

\* the row the timer tick looks up for the active bones a and b
AutosyncRow(p, a, b) ==
    IF Truthy(a) /\ _find_row_for(p, a) # 0 - 1 THEN _find_row_for(p, a)
    ELSE IF Truthy(b) THEN _find_row_for(p, b)
    ELSE 0 - 1

\* AJ_OT_toggle_autosync.modal on a TIMER event with auto_sync on; seen is
\* <<_last_a, _last_b>> -> [p, h, seen]
autosync_modal(p, h, seen) ==
    LET a == IF p.source_armature # None THEN get_active_bone_name(h, p.source_armature)
             ELSE Empty
        b == IF p.target_armature # None THEN get_active_bone_name(h, p.target_armature)
             ELSE Empty
    IN  IF a = seen[1] /\ b = seen[2] THEN [p |-> p, h |-> h, seen |-> seen]
        ELSE IF AutosyncRow(p, a, b) # 0 - 1 /\ AutosyncRow(p, a, b) # p.active_index
        THEN [p |-> SetActiveIndex(p, h, AutosyncRow(p, a, b)).p,
              h |-> SetActiveIndex(p, h, AutosyncRow(p, a, b)).h,
              seen |-> <<a, b>>]
        ELSE [p |-> p, h |-> h, seen |-> <<a, b>>]

----------------------------------------------------------------------------
(* SpecCycle: the user picks a Source and a Target among the armatures of   *)
(* the scene, then toggles follow, captures pairs and loads a mapping file  *)

SeededFor(src, tgt) ==
    LET r == SetSourceArmature(PropsDefault, HostBase, src)
    IN  SetTargetArmature(r.p, r.h, tgt)

InitCycle ==
    /\ \E src \in Armatures, tgt \in Armatures :
          /\ props = SeededFor(src, tgt).p
          /\ host = SeededFor(src, tgt).h
    /\ disk = [DiskEmpty EXCEPT ![PathMapTxt] = OldFile]
    /\ pc = "ready"
    /\ pre = [props |-> props, host |-> host]
    /\ last = NoCall
    /\ args = NoArgs

\* the user clicks a bone on each armature
DoPickBones ==
    /\ \E act \in [Armatures -> 1..2] :
          /\ act # host.bones_active
          /\ host' = [host EXCEPT !.bones_active = act]
    /\ pc' = "ready"
    /\ last' = NoCall
    /\ pre' = [props |-> props, host |-> host]
    /\ UNCHANGED <<props, disk, args>>

DoCaptureHere ==
    LET r == capture_pair(props, host)
    IN  /\ props' = r.p
        /\ host' = r.h
        /\ last' = [op |-> "capture_pair", result |-> r.result, out |-> <<>>]
        /\ pc' = "captured"
        /\ pre' = [props |-> props, host |-> host]
        /\ UNCHANGED <<disk, args>>

DoLoadHere ==
    LET r == bone_map_load(props, host, disk, PathMapTxt)
    IN  /\ props' = r.p
        /\ host' = r.h
        /\ last' = [op |-> "bone_map_load", result |-> r.result, out |-> PathMapTxt]
        /\ pc' = "loaded"
        /\ pre' = [props |-> props, host |-> host]
        /\ UNCHANGED <<disk, args>>

NextCycle ==
    \/ DoToggleA2B \/ DoToggleB2A \/ DoClearFollow
    \/ DoPickBones \/ DoCaptureHere \/ DoLoadHere

SpecCycle == InitCycle /\ [][NextCycle]_vars

\* a bone: its armature and its index
FollowNodes(h) == UNION {{<<a, i>> : i \in 1..Len(h.bones[a])} : a \in Armatures}

\* bone x carries a reserved-prefix constraint that copies bone y
FollowEdges(h) ==
    {e \in FollowNodes(h) \X FollowNodes(h) :
        \E k \in 1..Len(h.bones[e[1][1]][e[1][2]].constraints) :
              LET c == h.bones[e[1][1]][e[1][2]].constraints[k]
              IN  /\ IsFollowCon(c)
                  /\ c.target = e[2][1]
                  /\ c.subtarget = h.bones[e[2][1]][e[2][2]].name}

\* E with the pairs joined by a path of up to 2^n edges
RECURSIVE PathsWithin(_, _)
PathsWithin(E, n) ==
    IF n = 0 THEN E
    ELSE PathsWithin(E \cup {<<ef[1][1], ef[2][2]>> : ef \in {g \in E \X E : g[1][2] = g[2][1]}},
                     n - 1)

(* C21: in every state reached by follow toggles, captures and loads, no   *)
(* bone directly or transitively follows itself through the installed      *)
(* reserved-prefix constraints.                                            *)
C21_FollowSetNonCyclic ==
    \A x \in FollowNodes(host) : <<x, x>> \notin PathsWithin(FollowEdges(host), 3)

\* with two different armatures as Source and Target there is no cycle
NonCyclicAcrossArmatures ==
    props.source_armature # props.target_armature => C21_FollowSetNonCyclic


----------------------------------------------------------------------------
(* SpecSession: a working session.  The user chooses the armatures (which   *)
(* seeds the empty table), clicks bones, ticks Mark boxes and runs the      *)
(* commands of the panel, while the auto-sync timer ticks.  args.steps      *)
(* counts the steps taken, args.seen is the timer's _last_a and _last_b.    *)

MaxSteps == 4

SessionArgs(n, seen) == [mapping |-> <<>>, pending |-> {}, steps |-> n, seen |-> seen]

InitSession ==
    /\ \E st \in {<<None, None>>, <<ArmA, ArmB>>}, side \in {"TARGET", "SOURCE"} :
          /\ props = [SeededFor(st[1], st[2]).p EXCEPT !.current_armature_side = side]
          /\ host = SeededFor(st[1], st[2]).h
    /\ disk = [DiskEmpty EXCEPT ![PathMapTxt] = OldFile]
    /\ pc = "ready"
    /\ pre = [props |-> props, host |-> host]
    /\ last = NoCall
    /\ args = SessionArgs(0, <<Empty, Empty>>)

\* one step of the session: operation op took props and host to r.p and r.h
SessionStep(op, r, out) ==
    /\ args.steps < MaxSteps
    /\ props' = r.p
    /\ host' = r.h
    /\ last' = [op |-> op, result |-> r.result, out |-> out]
    /\ pre' = [props |-> props, host |-> host]
    /\ args' = SessionArgs(args.steps + 1, args.seen)
    /\ pc' = "ready"
    /\ UNCHANGED disk

DoChooseSource ==
    \E obj \in Armatures :
        /\ obj # props.source_armature
        /\ SessionStep("source_armature",
                       [p |-> SetSourceArmature(props, host, obj).p,
                        h |-> SetSourceArmature(props, host, obj).h, result |-> "SET"], obj)

DoChooseTarget ==
    \E obj \in Armatures :
        /\ obj # props.target_armature
        /\ SessionStep("target_armature",
                       [p |-> SetTargetArmature(props, host, obj).p,
                        h |-> SetTargetArmature(props, host, obj).h, result |-> "SET"], obj)

\* the user switches the Current Column side
DoChooseSide ==
    \E side \in {"TARGET", "SOURCE"} :
        /\ side # props.current_armature_side
        /\ SessionStep("current_armature_side",
                       [p |-> [props EXCEPT !.current_armature_side = side],
                        h |-> host, result |-> "SET"], side)

\* the user clicks bone i of armature a
DoClickBone ==
    \E a \in Armatures, i \in 1..2 :
        /\ host.bones_active[a] # i
        /\ SessionStep("click",
                       [p |-> props, h |-> [host EXCEPT !.bones_active[a] = i],
                        result |-> "SET"], <<a, i>>)

\* the user ticks or clears the Mark box of row i
DoTickMark ==
    \E i \in Rows(props) :
        SessionStep("mark",
                    [p |-> [props EXCEPT !.bone_map[i].mark = ~@], h |-> host,
                     result |-> "SET"], i)

DoSessionCapture == SessionStep("capture_pair", capture_pair(props, host), <<>>)

DoSessionLoad ==
    SessionStep("bone_map_load", bone_map_load(props, host, disk, PathMapTxt), PathMapTxt)

DoSessionSave ==
    /\ args.steps < MaxSteps
    /\ LET r == bone_map_save(props, disk, PathMap, "ok")
       IN  /\ props' = r.p
           /\ disk' = r.d
           /\ last' = [op |-> "bone_map_save", result |-> r.result, out |-> PathMap]
    /\ pre' = [props |-> props, host |-> host]
    /\ args' = SessionArgs(args.steps + 1, args.seen)
    /\ pc' = "ready"
    /\ UNCHANGED host

DoSessionApplySource == SessionStep("apply_to_source", apply_to_source(props, host), <<>>)

DoSessionApplyTarget == SessionStep("apply_to_target", apply_to_target(props, host), <<>>)

\* the revert button of row i
DoSessionRevertRow ==
    \E i \in Rows(props) : SessionStep("revert_row", revert_row(props, host, i - 1), i)

DoSessionRevertMarked == SessionStep("revert_marked", revert_marked(props, host), <<>>)

DoSessionRefresh == SessionStep("refresh_current", refresh_current(props, host), <<>>)

DoSessionToggleA2B == SessionStep("toggle_follow_a2b", toggle_follow_a2b(props, host), <<>>)

DoSessionToggleB2A == SessionStep("toggle_follow_b2a", toggle_follow_b2a(props, host), <<>>)

\* Export Current Action; the exporter succeeds or raises
DoSessionExport ==
    \E outs \in [1..1 -> Outcomes] :
        SessionStep("export_current_action", export_current_action(props, host, outs), outs)

\* a TIMER event reaches the modal handler of Auto-Sync, which is on
DoTimerTick ==
    /\ args.steps < MaxSteps
    /\ LET r == autosync_modal(props, host, args.seen)
       IN  /\ props' = r.p
           /\ host' = r.h
           /\ args' = SessionArgs(args.steps + 1, r.seen)
    /\ last' = [op |-> "timer", result |-> "PASS_THROUGH", out |-> <<>>]
    /\ pre' = [props |-> props, host |-> host]
    /\ pc' = "ready"
    /\ UNCHANGED disk

NextSession ==
    \/ DoChooseSource \/ DoChooseTarget \/ DoChooseSide \/ DoClickBone \/ DoTickMark
    \/ DoSessionCapture \/ DoSessionLoad \/ DoSessionSave
    \/ DoSessionApplySource \/ DoSessionApplyTarget
    \/ DoSessionRevertRow \/ DoSessionRevertMarked \/ DoSessionRefresh
    \/ DoSessionToggleA2B \/ DoSessionToggleB2A \/ DoSessionExport
    \/ DoTimerTick

SpecSession == InitSession /\ [][NextSession]_vars

OriginalNames(p) == [i \in Rows(p) |-> p.bone_map[i].original_name]

(* C22: starting from an empty table, after any sequence of seeding from   *)
(* an armature, Capture, Load, Apply, Revert row, Revert marked, Refresh   *)
(* Current and Save, no two rows have the same original_name.              *)
C22_OriginalNameUnique ==
    \A i \in Rows(props), j \in Rows(props) :
        props.bone_map[i].original_name = props.bone_map[j].original_name => i = j


\* a Load merged a file entry into a seeded row and added a row for another
C22_Witness ==
    /\ last.op = "bone_map_load" /\ last.result = "FINISHED"
    /\ Len(pre.props.bone_map) = 3
    /\ Len(props.bone_map) = 4
    /\ \E i \in Rows(pre.props) :
          props.bone_map[i].target_name # pre.props.bone_map[i].target_name


----------------------------------------------------------------------------
(* SpecDup: the user has typed over the Original column, so that rows may   *)
(* share an original_name; then bones are clicked, pairs captured and a     *)
(* mapping file loaded                                                      *)

DupTables == {<<Row(t[1], t[1], nA), Row(t[2], t[2], nB), Row(t[3], t[3], nC)>> :
                 t \in [1..3 -> {nA, nD}]}

InitDup ==
    /\ \E t \in DupTables :
          props = [PropsDefault EXCEPT !.source_armature = ArmA, !.target_armature = ArmB,
                                       !.bone_map = t]
    /\ host = HostBase
    /\ disk = [DiskEmpty EXCEPT ![PathMapTxt] = OldFile]
    /\ pc = "ready"
    /\ pre = [props |-> props, host |-> host]
    /\ last = NoCall
    /\ args = NoArgs

NextDup == DoPickBones \/ DoCaptureHere \/ DoLoadHere

SpecDup == InitDup /\ [][NextDup]_vars

\* the rows of p that share their original_name with an earlier row
LaterDuplicates(p) ==
    {i \in Rows(p) : \E j \in 1..(i - 1) : p.bone_map[j].original_name = p.bone_map[i].original_name}

\* the name-keyed operation op ran on a table with duplicates
KeyedOnDuplicates(op) ==
    /\ last.op = op /\ last.result = "FINISHED"
    /\ LaterDuplicates(pre.props) # {}

(* C23: when several rows share an original_name, Capture's update and     *)
(* Load's merge change only the first of them (lowest index) and leave the *)
(* later duplicates unchanged.                                             *)
C23_FirstMatchWins ==
    (KeyedOnDuplicates("capture_pair") \/ KeyedOnDuplicates("bone_map_load")) =>
        \A i \in LaterDuplicates(pre.props) : props.bone_map[i] = pre.props.bone_map[i]

\* Capture leaves the later duplicates as they were
CaptureFirstMatchWins ==
    KeyedOnDuplicates("capture_pair") =>
        \A i \in LaterDuplicates(pre.props) : props.bone_map[i] = pre.props.bone_map[i]

\* Load merges a file entry into the last row that holds its key
LoadLastMatchWins ==
    KeyedOnDuplicates("bone_map_load") =>
        \A i \in Rows(pre.props) :
            (\E j \in (i + 1)..Len(pre.props.bone_map) :
                pre.props.bone_map[j].original_name = pre.props.bone_map[i].original_name)
            => /\ props.bone_map[i].target_name = pre.props.bone_map[i].target_name
               /\ props.bone_map[i].cap_tgt = pre.props.bone_map[i].cap_tgt


----------------------------------------------------------------------------
(* Load and the Current column, over SpecFile                               *)

\* the rows of the table before the Load whose Current was filled in
PopulatedBefore == {i \in Rows(pre.props) : Truthy(pre.props.bone_map[i].current_name)}

\* what Load puts into a blank Current of row `it`
Backfill(h, arm, it) ==
    IF _bone_exists(h, arm, it.original_name) THEN it.original_name
    ELSE IF _bone_exists(h, arm, it.target_name) THEN it.target_name
    ELSE Empty

(* C24: Load never overwrites a populated Current; a row whose Current is  *)
(* blank after the merge gets original_name if the reference armature has  *)
(* a bone of that name, else target_name if it has a bone of that name,    *)
(* else stays blank.                                                       *)
C24_LoadKeepsPopulatedCurrent ==
    (last.op = "bone_map_load" /\ last.result = "FINISHED") =>
        /\ Len(props.bone_map) >= Len(pre.props.bone_map)
        /\ \A i \in PopulatedBefore :
              props.bone_map[i].current_name = pre.props.bone_map[i].current_name
        /\ \A i \in Rows(props) \ PopulatedBefore :
              props.bone_map[i].current_name = Backfill(host, CurrentArm(props), props.bone_map[i])

\* a Load kept a Current that names no bone, although the row's Rename names
\* one, and filled in a blank Current
C24_Witness ==
    /\ last.op = "bone_map_load" /\ last.result = "FINISHED"
    /\ \E i \in PopulatedBefore :
          /\ ~_bone_exists(host, CurrentArm(props), props.bone_map[i].current_name)
          /\ _bone_exists(host, CurrentArm(props), props.bone_map[i].target_name)
    /\ \E i \in Rows(props) \ PopulatedBefore : Truthy(props.bone_map[i].current_name)


----------------------------------------------------------------------------
(* The table across the commands of a session, over SpecSession             *)

\* the last step chose another Source or Target while the table had rows
ChoseArmatureOnRows ==
    /\ last.op \in {"source_armature", "target_armature"}
    /\ pre.props.bone_map # <<>>

(* C25: no command among Capture, Load, Save, Apply, Revert row, Revert     *)
(* marked, Refresh Current, the follow toggles, export and the auto-sync    *)
(* timer reduces the number of rows, and choosing another Source or Target *)
(* leaves a non-empty table completely unchanged.                          *)
C25_RowsNeverDeleted ==
    /\ Len(props.bone_map) >= Len(pre.props.bone_map)
    /\ ChoseArmatureOnRows => props.bone_map = pre.props.bone_map

\* a Load added a row to the seeded table and then the Source was changed to
\* the armature that was the Target
C25_Witness ==
    /\ ChoseArmatureOnRows
    /\ Len(props.bone_map) = 4
    /\ props.source_armature = ArmB /\ pre.props.source_armature = ArmA


(* C26: a tick of the auto-sync timer changes no row and renames no bone;   *)
(* it mutates only the active row index, and in particular not the bone    *)
(* selection, the active bone or the interaction mode of the armatures.    *)
C26_TimerTickReadOnly ==
    last.op = "timer" =>
        /\ props.bone_map = pre.props.bone_map
        /\ [props EXCEPT !.active_index = 0] = [pre.props EXCEPT !.active_index = 0]
        /\ host = pre.host

\* a tick changes no row, renames no bone and leaves every property but the
\* active index as it was
TimerTickKeepsTableAndNames ==
    last.op = "timer" =>
        /\ [props EXCEPT !.active_index = 0] = [pre.props EXCEPT !.active_index = 0]
        /\ \A a \in Armatures : BoneNames(host.bones[a]) = BoneNames(pre.host.bones[a])


----------------------------------------------------------------------------
(* Chains and swaps in the mapping, over SpecPipeline                       *)

\* the path names a bone that is a key of the mapping
ReferencesKey(dp, m) ==
    \E i \in 1..Len(dp) : dp[i].kind = "pose.bones" /\ DictHas(m, dp[i].name)

(* C27: after Apply with any mapping M, chains and swaps included, every   *)
(* animation-curve or driver path that referenced a key old of M           *)
(* references exactly M[old], not old again and not M[M[old]].             *)
C27_EachPathOwnEntry ==
    pc = "applied" =>
        /\ \A a \in 1..Len(pre.host.actions) : \A f \in 1..Len(pre.host.actions[a].fcurves) :
              ReferencesKey(pre.host.actions[a].fcurves[f], args.mapping) =>
                  host.actions[a].fcurves[f] =
                      PathRenamed(pre.host.actions[a].fcurves[f], args.mapping)
        /\ \A o \in SeqToSet(Objects) : \A f \in 1..Len(pre.host.animation_data[o].drivers) :
              ReferencesKey(pre.host.animation_data[o].drivers[f], args.mapping) =>
                  host.animation_data[o].drivers[f] =
                      PathRenamed(pre.host.animation_data[o].drivers[f], args.mapping)


----------------------------------------------------------------------------
(* Revert and the Current column, over SpecSession                          *)

\* the test of AJ_OT_revert_row and AJ_OT_revert_marked: row i names a bone to rename back
Qualifies(p, h, i) ==
    /\ IsArmature(CurrentArm(p))
    /\ Truthy(p.bone_map[i].current_name) /\ Truthy(p.bone_map[i].original_name)
    /\ p.bone_map[i].current_name # p.bone_map[i].original_name
    /\ _bone_exists(h, CurrentArm(p), p.bone_map[i].current_name)

\* the bone that row i called Current before the step is called Original after it
RenamedBack(i) ==
    LET arm == CurrentArm(pre.props)
        k == BoneIdx(pre.host.bones[arm], pre.props.bone_map[i].current_name)
    IN  host.bones[arm][k].name = pre.props.bone_map[i].original_name

\* row i has the Current it had before the step
CurrentKept(i) == props.bone_map[i].current_name = pre.props.bone_map[i].current_name

\* Revert marked left row i, which is not marked, and the bone it names alone
UnmarkedUntouched(i) ==
    /\ props.bone_map[i] = pre.props.bone_map[i]
    /\ LET arm == CurrentArm(pre.props)
           cur == pre.props.bone_map[i].current_name
       IN  (/\ IsArmature(arm) /\ _bone_exists(pre.host, arm, cur)
            /\ \A j \in Rows(pre.props) :
                  pre.props.bone_map[j].mark => pre.props.bone_map[j].current_name # cur)
           => LET k == BoneIdx(pre.host.bones[arm], cur)
              IN  /\ host.bones[arm][k].name = cur
                  /\ host.bones[arm][k].use_deform = pre.host.bones[arm][k].use_deform

\* the rows a Revert step was asked to revert
RevertedRows ==
    IF last.op = "revert_row" THEN {last.out}
    ELSE {i \in Rows(pre.props) : pre.props.bone_map[i].mark}

(* C28: Revert row and Revert marked set a row's current_name to its       *)
(* original_name only when the bone named current_name was renamed back to *)
(* original_name on the reference armature; a row that does not qualify    *)
(* keeps its current_name, and Revert marked never changes an unmarked row *)
(* or its bone.                                                            *)
C28_RevertResetsOnSuccess ==
    last.op \in {"revert_row", "revert_marked"} =>
        /\ \A i \in RevertedRows :
              IF Qualifies(pre.props, pre.host, i)
              THEN ~CurrentKept(i) => RenamedBack(i)
              ELSE CurrentKept(i)
        /\ last.op = "revert_marked" =>
              \A i \in Rows(pre.props) \ RevertedRows : UnmarkedUntouched(i)


----------------------------------------------------------------------------
(* Refresh Current and Capture, over SpecSession                            *)

\* row i as Refresh Current leaves row `it` on reference armature arm
Refreshed(h, arm, it) ==
    IF _bone_exists(h, arm, it.original_name)
    THEN [it EXCEPT !.current_name = it.original_name]
    ELSE IF _bone_exists(h, arm, it.target_name)
    THEN [it EXCEPT !.current_name = it.target_name]
    ELSE it

(* C29: after Refresh Current with a valid reference armature every row's  *)
(* current_name is original_name if the armature has a bone of that name,  *)
(* else target_name if it has a bone of that name; no bone name, deform    *)
(* flag or reference changes, and no original_name or target_name.         *)
C29_RefreshRederivesCurrent ==
    (last.op = "refresh_current" /\ last.result = "FINISHED") =>
        /\ host = pre.host
        /\ Len(props.bone_map) = Len(pre.props.bone_map)
        /\ \A i \in Rows(props) :
              props.bone_map[i] = Refreshed(host, CurrentArm(props), pre.props.bone_map[i])
        /\ [props EXCEPT !.bone_map = <<>>] = [pre.props EXCEPT !.bone_map = <<>>]

\* a Refresh Current moved one row's Current to its Original and filled another
\* row's blank Current with its Rename, whose Original names no bone
C29_Witness ==
    /\ last.op = "refresh_current" /\ last.result = "FINISHED"
    /\ \E i \in Rows(props) :
          /\ props.bone_map[i].current_name = props.bone_map[i].original_name
          /\ pre.props.bone_map[i].current_name # props.bone_map[i].current_name
    /\ \E i \in Rows(props) :
          /\ props.bone_map[i].current_name = props.bone_map[i].target_name
          /\ props.bone_map[i].target_name # props.bone_map[i].original_name
          /\ pre.props.bone_map[i].current_name = Empty


\* the row a Capture wrote: the one the active index points at
CapturedRow == props.bone_map[props.active_index + 1]

\* the Source and Target active bones the Capture read
CapturedSource == get_active_bone_name(pre.host, pre.props.source_armature)

CapturedTarget == get_active_bone_name(pre.host, pre.props.target_armature)

HadRowFor(a) == \E i \in Rows(pre.props) : pre.props.bone_map[i].original_name = a

(* C30: a successful Capture with Source active bone a and Target active   *)
(* bone b adds no row if a row with original_name a exists and exactly one *)
(* otherwise; afterwards the row the active index points at has            *)
(* original_name a, target_name b, captured pair (a, b) and current_name b *)
(* on the Target side or a on the Source side, and every other row is      *)
(* unchanged.                                                              *)
C30_CaptureUpdatesOrInserts ==
    (last.op = "capture_pair" /\ last.result = "FINISHED") =>
        /\ Len(props.bone_map) =
              Len(pre.props.bone_map) + (IF HadRowFor(CapturedSource) THEN 0 ELSE 1)
        /\ props.active_index + 1 \in Rows(props)
        /\ CapturedRow.original_name = CapturedSource
        /\ CapturedRow.target_name = CapturedTarget
        /\ CapturedRow.cap_src = CapturedSource /\ CapturedRow.cap_tgt = CapturedTarget
        /\ CapturedRow.current_name =
              (IF props.current_armature_side = "TARGET" THEN CapturedTarget ELSE CapturedSource)
        /\ \A i \in Rows(pre.props) \ {props.active_index + 1} :
              props.bone_map[i] = pre.props.bone_map[i]

\* on the SOURCE side a Capture added a row for a bone that had none, with other
\* rows in the table
C30_WitnessInsert ==
    /\ last.op = "capture_pair" /\ last.result = "FINISHED"
    /\ props.current_armature_side = "SOURCE"
    /\ ~HadRowFor(CapturedSource)
    /\ pre.props.bone_map # <<>>
    /\ CapturedSource # CapturedTarget

\* on the SOURCE side a Capture rewrote the row of the Source bone, with a Target
\* bone of another name
C30_Witness ==
    /\ last.op = "capture_pair" /\ last.result = "FINISHED"
    /\ props.current_armature_side = "SOURCE"
    /\ HadRowFor(CapturedSource)
    /\ Len(props.bone_map) = 3
    /\ CapturedSource # CapturedTarget
    /\ CapturedRow.current_name = CapturedSource


----------------------------------------------------------------------------
(* SpecSelect: Capture on two armatures with any bones selected and any     *)
(* bone, or none, active                                                    *)

\* the bones of armature a with the bones of `sel` selected
SelectBones(bs, sel) == [i \in 1..Len(bs) |-> [bs[i] EXCEPT !.select = (i \in sel)]]

InitSelect ==
    /\ \E sa \in SUBSET (1..3), sb \in SUBSET (1..3), act \in [Armatures -> 0..2],
          side \in {"SOURCE", "TARGET"} :
          /\ props = [PropsDefault EXCEPT !.source_armature = ArmA, !.target_armature = ArmB,
                                          !.current_armature_side = side,
                                          !.bone_map = SeededTable(<<nA, nB, nC>>)]
          /\ host = [HostBase EXCEPT !.bones_active = act,
                                     !.bones[ArmA] = SelectBones(@, sa),
                                     !.bones[ArmB] = SelectBones(@, sb)]
    /\ disk = DiskEmpty
    /\ pc = "ready"
    /\ pre = [props |-> props, host |-> host]
    /\ last = NoCall
    /\ args = NoArgs

NextSelect == DoCapture

SpecSelect == InitSelect /\ [][NextSelect]_vars

\* the bones of armature arm that are selected
SelectedBones(h, arm) == {i \in 1..Len(h.bones[arm]) : h.bones[arm][i].select}

OneSelectedPerSide(p, h) ==
    /\ Cardinality(SelectedBones(h, p.source_armature)) = 1
    /\ Cardinality(SelectedBones(h, p.target_armature)) = 1

(* C31: Capture is cancelled without changing the table unless exactly one *)
(* bone is selected on the Source armature and exactly one on the Target.  *)
C31_CaptureNeedsOneSelectedPerSide ==
    (last.op = "capture_pair" /\ ~OneSelectedPerSide(pre.props, pre.host)) =>
        /\ last.result = "CANCELLED"
        /\ props.bone_map = pre.props.bone_map

\* Capture is cancelled without changing the table when a side has neither an
\* active bone nor a selected one
CaptureNeedsABonePerSide ==
    (last.op = "capture_pair" /\ CaptureUnmet(pre.props, pre.host)) =>
        /\ last.result = "CANCELLED"
        /\ props.bone_map = pre.props.bone_map


----------------------------------------------------------------------------
(* The Original column across the commands of a session, over SpecSession   *)

(* C32: no command among Load, Save, Apply, Revert row, Revert marked,     *)
(* Refresh Current, the follow toggles, export and Capture changes the     *)
(* original_name of a row that already exists.                            *)
C32_OriginalNameImmutable ==
    \A i \in Rows(pre.props) :
        /\ i \in Rows(props)
        /\ props.bone_map[i].original_name = pre.props.bone_map[i].original_name

\* a Capture rewrote the Rename of a row that existed, and a Load before it had
\* added a row
C32_Witness ==
    /\ last.op = "capture_pair" /\ last.result = "FINISHED"
    /\ Len(pre.props.bone_map) = 4
    /\ \E i \in Rows(pre.props) :
          props.bone_map[i].target_name # pre.props.bone_map[i].target_name


----------------------------------------------------------------------------
(* SpecTwice: the scenes and tables of SpecPipeline, with the same Apply    *)
(* command invoked a second time                                            *)

\* the Apply button of the Current side is pressed again
DoApplyAgain ==
    /\ pc = "applied"
    /\ LET r == IF props.current_armature_side = "TARGET" THEN apply_to_target(props, host)
                ELSE apply_to_source(props, host)
       IN  /\ props' = r.p
           /\ host' = r.h
           /\ last' = [op |-> "apply", result |-> r.result, out |-> <<>>]
    /\ pre' = [props |-> props, host |-> host]
    /\ pc' = "again"
    /\ UNCHANGED <<disk, args>>

NextTwice == DoApplyTarget \/ DoApplySource \/ DoApplyAgain

SpecTwice == InitPipeline /\ [][NextTwice]_vars

(* C33: invoking the same Apply command twice in a row leaves the bone     *)
(* names, deform flags and references of the armature exactly as they were *)
(* after the first invocation, also when the mapping swaps or rotates      *)
(* names among existing bones.                                             *)
C33_ApplyIdempotent ==
    pc = "again" =>
        SceneRefs(host, CurrentArm(props)) = SceneRefs(pre.host, CurrentArm(props))

\* a second Apply changes nothing when, after the first, no Original of a row
\* to rename names a bone
ApplyAgainCancelled ==
    (pc = "again" /\ ApplyMapping(pre.props, pre.host, CurrentArm(pre.props)) = <<>>) =>
        /\ last.result = "CANCELLED"
        /\ host = pre.host /\ props = pre.props


----------------------------------------------------------------------------
(* The temporary names of the rename, over SpecRename                       *)

\* the name contains the reserved temporary suffix
HasTempSuffix(n) == \E k \in 1..Len(n) : <<n[k]>> = temp_suffix

\* the bones whose name changed to the new name the mapping gives their old name
RenamedAsMapped(b0, b1, m) ==
    {i \in 1..Len(b0) : /\ DictHas(m, b0[i].name)
                        /\ b1[i].name # b0[i].name
                        /\ b1[i].name = DictGet(m, b0[i].name)}

(* C34: when rename_bones_edit_mode_preserve_flags returns, for any        *)
(* mapping, no bone of the armature has a name containing the reserved     *)
(* temporary suffix, and the renamed count it returns is the number of     *)
(* bones whose name changed to its mapped new name.                        *)
C34_NoSentinelSurvives ==
    pc = "done" =>
        /\ \A i \in 1..Len(host.bones[ArmB]) : ~HasTempSuffix(host.bones[ArmB][i].name)
        /\ last.out[1] =
              Cardinality(RenamedAsMapped(pre.host.bones[ArmB], host.bones[ArmB], args.mapping))

\* with new names that differ from each other no temporary name is left
NoSentinelWhenInjective ==
    (pc = "done" /\ DistinctNewNames(args.mapping)) =>
        \A i \in 1..Len(host.bones[ArmB]) : ~HasTempSuffix(host.bones[ArmB][i].name)


----------------------------------------------------------------------------
(* Follow constraints and renames, over SpecSession                         *)

\* the last step renamed bones: an Apply or a Revert
RenamedBones ==
    last.op \in {"apply_to_source", "apply_to_target", "revert_row", "revert_marked"}

(* C35: while a follow direction is active, after Apply to Source, Apply   *)
(* to Target or a Revert every installed reserved-prefix constraint still  *)
(* names an existing bone of the armature it targets and couples the same  *)
(* pair of physical bones as before the rename.                            *)
C35_FollowSurvivesRename ==
    (RenamedBones /\ (pre.props.live_follow_a2b \/ pre.props.live_follow_b2a)) =>
        FollowEdges(host) = FollowEdges(pre.host)


----------------------------------------------------------------------------
(* SpecBoth: Apply on a scene where each armature is constrained, animated  *)
(* and driven on its own                                                    *)

\* both armatures carry a constraint between their own bones, an assigned
\* action of their own and a driver of their own
SceneBoth ==
    [HostBase EXCEPT
        !.bones[ArmA][1].constraints = <<Con(<<"Copy Rotation">>, "COPY_ROTATION", ArmA, nB)>>,
        !.bones[ArmB][1].constraints = <<Con(<<"Copy Rotation">>, "COPY_ROTATION", ArmB, nB)>>,
        !.actions = <<[fcurves |-> <<Fcu(nA), Fcu(nB)>>, frame_range |-> <<1, 20>>],
                      [fcurves |-> <<Fcu(nA), Fcu(nC)>>, frame_range |-> <<1, 20>>]>>,
        !.animation_data[ArmA] = [action |-> 1,
                                  drivers |-> << <<PoseTok(nA), PropTok("scale")>> >>],
        !.animation_data[ArmB] = [action |-> 2,
                                  drivers |-> << <<PoseTok(nC), PropTok("scale")>> >>]]

InitBoth ==
    /\ \E side \in {"TARGET", "SOURCE"}, t \in [1..3 -> RenameTargets] :
          props = [PropsDefault EXCEPT !.source_armature = ArmA, !.target_armature = ArmB,
                                       !.current_armature_side = side,
                                       !.bone_map = SeededTable(t)]
    /\ host = SceneBoth
    /\ disk = DiskEmpty
    /\ pc = "ready"
    /\ pre = [props |-> props, host |-> host]
    /\ last = NoCall
    /\ args = NoArgs

NextBoth == DoApplyTarget \/ DoApplySource

SpecBoth == InitBoth /\ [][NextBoth]_vars

\* the armature an Apply on the Current side leaves alone
OtherArm(p) == IF CurrentArm(p) = ArmA THEN ArmB ELSE ArmA

\* the bone of `arm` a name resolves to, 0 when it names none
ResolvesTo(h, arm, n) ==
    IF n \in BoneNames(h.bones[arm]) THEN BoneIdx(h.bones[arm], n) ELSE 0

\* the bone of `arm` a data path resolves to
PathResolvesTo(h, arm, dp) ==
    IF \E k \in 1..Len(dp) : dp[k].kind = "pose.bones"
    THEN ResolvesTo(h, arm, dp[CHOOSE k \in 1..Len(dp) : dp[k].kind = "pose.bones"].name)
    ELSE 0

\* the curves of the action assigned to `arm`
OwnCurves(h, arm) ==
    IF h.animation_data[arm].action = 0 THEN <<>>
    ELSE h.actions[h.animation_data[arm].action].fcurves

\* every path of ps0 that resolved to a bone of `arm` resolves to it in ps1
PathsStillResolve(h0, h1, arm, ps0, ps1) ==
    /\ Len(ps1) = Len(ps0)
    /\ \A k \in 1..Len(ps0) :
          PathResolvesTo(h0, arm, ps0[k]) # 0 =>
              PathResolvesTo(h1, arm, ps1[k]) = PathResolvesTo(h0, arm, ps0[k])

\* every subtarget on `arm` that named a bone of `arm` still names it
SubtargetsStillResolve(h0, h1, arm) ==
    \A i \in 1..Len(h0.bones[arm]) : \A k \in 1..Len(h0.bones[arm][i].constraints) :
        LET c0 == h0.bones[arm][i].constraints[k]
            c1 == h1.bones[arm][i].constraints[k]
        IN  (c0.target = arm /\ ResolvesTo(h0, arm, c0.subtarget) # 0) =>
                ResolvesTo(h1, arm, c1.subtarget) = ResolvesTo(h0, arm, c0.subtarget)

\* names and deform flags of `arm` are the same in h0 and h1
NamesAndDeformKept(h0, h1, arm) ==
    /\ SceneRefs(h1, arm).names = SceneRefs(h0, arm).names
    /\ SceneRefs(h1, arm).deform = SceneRefs(h0, arm).deform

(* C36: after Apply to one armature the other armature's bone names and    *)
(* deform flags are unchanged, and every animation-curve path, driver path *)
(* and constraint subtarget that resolved to one of its bones still        *)
(* resolves to the same bone, also when both armatures have bones of the   *)
(* same names.                                                             *)
C36_ApplyLeavesOtherArmature ==
    pc = "applied" =>
        LET o == OtherArm(pre.props)
        IN  /\ NamesAndDeformKept(pre.host, host, o)
            /\ SubtargetsStillResolve(pre.host, host, o)
            /\ PathsStillResolve(pre.host, host, o, OwnCurves(pre.host, o), OwnCurves(host, o))
            /\ PathsStillResolve(pre.host, host, o, pre.host.animation_data[o].drivers,
                                 host.animation_data[o].drivers)

\* names, deform flags and constraint subtargets of the other armature are kept
ApplyKeepsOtherBonesAndConstraints ==
    pc = "applied" =>
        /\ NamesAndDeformKept(pre.host, host, OtherArm(pre.props))
        /\ SubtargetsStillResolve(pre.host, host, OtherArm(pre.props))


----------------------------------------------------------------------------
(* Export helpers, over SpecExport                                          *)

\* some pose bone of `arm` carries a constraint named AJ_BVH_ROT
CarriesBVHRot(h, arm) ==
    \E i \in 1..Len(h.bones[arm]) : BVHRot \in ConNames(h.bones[arm][i])

(* C37: when an export command has returned, on success or after the       *)
(* exporter raised, no pose bone of the exported armature carries an       *)
(* AJ_BVH_ROT constraint, no AJ_BVH_Rotate_Helper object made by the       *)
(* command remains, and the armature's active action is the one that was   *)
(* active before.                                                          *)
C37_ExportLeavesNoHelper ==
    pc = "exported" =>
        LET arm == ExportArm(pre.props)
        IN  /\ ~CarriesBVHRot(host, arm)
            /\ host.helpers = pre.host.helpers
            /\ host.animation_data[arm].action = pre.host.animation_data[arm].action

\* the active action is restored by every export command, however it ends
ExportRestoresActiveAction ==
    pc = "exported" =>
        host.animation_data[ExportArm(pre.props)].action =
            pre.host.animation_data[ExportArm(pre.props)].action

\* an export whose exporter calls all succeed leaves no helper behind
ExportCleanWhenNoRaise ==
    (pc = "exported" /\ \A k \in 1..Len(last.out) : last.out[k].outcome # "raise") =>
        /\ ~CarriesBVHRot(host, ExportArm(pre.props))
        /\ host.helpers = pre.host.helpers


----------------------------------------------------------------------------
(* The Current column against the rig, over SpecSession                     *)

\* the last step was a command that writes the Current column from the rig
WroteCurrent ==
    /\ last.op \in {"apply_to_source", "apply_to_target", "revert_row", "revert_marked",
                    "refresh_current"}
    /\ last.result = "FINISHED"
    /\ IsArmature(CurrentArm(props))

\* the rows whose Current is non-blank and names no bone of the reference armature
StaleRows(p, h) ==
    {i \in Rows(p) : /\ p.bone_map[i].current_name # Empty
                     /\ ~_bone_exists(h, CurrentArm(p), p.bone_map[i].current_name)}

(* C38: after Apply, Revert row, Revert marked or Refresh Current has      *)
(* completed with a valid reference armature, every row's non-blank        *)
(* Current names a bone that exists on the armature the Current column     *)
(* reflects.                                                               *)
C38_CurrentNamesExistingBone ==
    WroteCurrent => StaleRows(props, host) = {}


----------------------------------------------------------------------------
(* SpecSettle: auto-sync and follow-row-selection are on and the table is   *)
(* filled; the user makes one bone active, then only the timer ticks.       *)
(* args.seen is the timer's _last_a and _last_b, args.pending the rows the  *)
(* ticks have made active.                                                  *)

\* the names of the Target armature's bones
SettleBones == {<<nA, nB, nC>>, <<nB, nC, nD>>}

InitSettle ==
    /\ \E st \in {<<ArmA, ArmB>>, <<None, ArmB>>, <<ArmA, None>>},
          t \in [1..3 -> RenameTargets], nb \in SettleBones :
          /\ props = [PropsDefault EXCEPT !.source_armature = st[1],
                                          !.target_armature = st[2],
                                          !.follow_list_selection = TRUE,
                                          !.bone_map = SeededTable(t)]
          /\ host = [HostBase EXCEPT !.bones[ArmB] =
                        [i \in 1..3 |-> [HostBase.bones[ArmB][i] EXCEPT !.name = nb[i]]]]
    /\ disk = DiskEmpty
    /\ pc = "ready"
    /\ pre = [props |-> props, host |-> host]
    /\ last = NoCall
    /\ args = SessionArgs(0, <<Empty, Empty>>)

\* the one user change: bone i of a chosen armature becomes its active bone
DoUserClick ==
    /\ pc = "ready"
    /\ \E a \in {props.source_armature, props.target_armature} \ {None} :
       \E i \in 1..Len(host.bones[a]) :
          /\ host' = [host EXCEPT !.bones_active[a] = i]
          /\ last' = [op |-> "click", result |-> "SET", out |-> <<a, i>>]
    /\ pre' = [props |-> props, host |-> host]
    /\ pc' = "clicked"
    /\ UNCHANGED <<props, disk, args>>

\* the window manager's timer event reaches the modal handler
DoTick ==
    /\ LET r == autosync_modal(props, host, args.seen)
       IN  /\ props' = r.p
           /\ host' = r.h
           /\ args' = [args EXCEPT !.seen = r.seen,
                                   !.pending = IF r.p.active_index # props.active_index
                                               THEN @ \cup {r.p.active_index} ELSE @]
    /\ last' = [op |-> "timer", result |-> "PASS_THROUGH", out |-> <<>>]
    /\ pre' = [props |-> props, host |-> host]
    /\ UNCHANGED <<disk, pc>>

NextSettle == DoUserClick \/ DoTick

\* a tick would change the state: ENABLED <<DoTick>>_vars, written out
TickPending ==
    \/ autosync_modal(props, host, args.seen).p # props
    \/ autosync_modal(props, host, args.seen).h # host
    \/ autosync_modal(props, host, args.seen).seen # args.seen
    \/ last # [op |-> "timer", result |-> "PASS_THROUGH", out |-> <<>>]
    \/ pre # [props |-> props, host |-> host]

\* the timer fires every 0.1 s for as long as auto-sync is on: weak fairness
\* of DoTick, WF_vars(DoTick) with its ENABLED written as TickPending
TickFairness == []<>~TickPending \/ []<><<DoTick>>_vars

SpecSettle == InitSettle /\ [][NextSettle]_vars /\ TickFairness

\* a step that leaves the active row and both armatures' active bones alone
SelectionKept ==
    /\ props'.active_index = props.active_index
    /\ host'.bones_active = host.bones_active

\* the next tick would change neither the active row nor an active bone
Settled ==
    /\ autosync_modal(props, host, args.seen).p.active_index = props.active_index
    /\ autosync_modal(props, host, args.seen).h.bones_active = host.bones_active

(* C39: with auto-sync and follow-row-selection on, after one user change  *)
(* of the active bone and no further input, the timer ticks reach within   *)
(* finitely many ticks a state from which the active row and both          *)
(* armatures' active bones no longer change.                               *)
C39_AutoSyncSettles == (pc = "clicked") ~> []Settled

\* from some point on no step changes the active row or an active bone
TicksEventuallyKeepSelection == <>[][SelectionKept]_vars

\* the ticks after a click have moved the active row twice and have settled
C39_Witness ==
    /\ pc = "clicked"
    /\ last.op = "timer"
    /\ Cardinality(args.pending) >= 2
    /\ Settled

====
